---- MODULE Spec2Model ----
(***************************************************************************)
(* Model of the optix text-operation engine: the pattern compiler, the     *)
(* four processor strategies (search, replace, filter, transform), the     *)
(* processor registry and the four commands that dispatch through it.      *)
(*                                                                         *)
(* Text is a sequence of one-character strings.  The filesystem is a       *)
(* function from path to file content; os.WriteFile is modelled with the   *)
(* three outcomes it has (written, failed on open, failed after the file   *)
(* was truncated and partly written).                                      *)
(***************************************************************************)
EXTENDS Integers, Sequences, FiniteSets, TLC

VARIABLES
    fs,         \* the files on disk: path -> content
    dirs,       \* the directories os.MkdirAll created
    now,        \* the clock, in ticks
    registry,   \* the processors map of the TextProcessorStrategy in use
    ops,        \* number of operations invoked so far
    last,       \* the last invocation: its inputs, what it returned, its calls
    originals,  \* contents the source held before each successful live Replace with backup
    readers,    \* the readers slice of the FileReaderStrategy in use
    loaded      \* the last ReadFile call: its file name and what it returned

vars == <<fs, dirs, now, registry, ops, last, originals, readers, loaded>>

-----------------------------------------------------------------------------
(* Bounds of the model.                                                    *)

\* longest file content drawn by the text-engine specification
MaxLen == 3
\* longest pattern drawn by the text-engine specification
MaxPatLen == 2
\* number of operations in one behaviour of the filesystem specification
MaxOps == 2
\* last clock tick; the clock counts fractions of a second
MaxTick == 2
\* clock ticks per second (the backup timestamp has one-second resolution)
TicksPerSecond == 2
\* most bytes a failed write leaves in the file it truncated
MaxKeep == 0
\* most lines of a document drawn by the line-matching specification
MaxLines == 3

-----------------------------------------------------------------------------
(* Characters and strings.                                                 *)

NL == "\n"
BS == "\\"

LowerLetters == {"a", "b"}
UpperLetters == {"A", "B"}
Digits == {"0", "1"}
\* the class \w of the regexp engine: [0-9A-Za-z_]
WordChars == LowerLetters \cup UpperLetters \cup Digits \cup {"_"}
\* unicode.IsSpace restricted to the characters of the model
SpaceChars == {" ", NL}

ToLowerCh(c) == CASE c = "A" -> "a" [] c = "B" -> "b" [] OTHER -> c
ToUpperCh(c) == CASE c = "a" -> "A" [] c = "b" -> "B" [] OTHER -> c

ToLowerText(t) == [i \in 1..Len(t) |-> ToLowerCh(t[i])]
\* the case of every letter swapped
ToUpperText_SwapsCase(t) ==
    [i \in 1..Len(t) |-> IF t[i] \in UpperLetters THEN ToLowerCh(t[i]) ELSE ToUpperCh(t[i])]

ToUpperText(t) == [i \in 1..Len(t) |-> ToUpperCh(t[i])]

RECURSIVE Concat(_)
\* concatenation of a sequence of texts
Concat(ss) == IF ss = <<>> THEN <<>> ELSE Head(ss) \o Concat(Tail(ss))

RECURSIVE JoinLines(_)
\* strings.Join(lines, "\n")
JoinLines(ls) ==
    IF ls = <<>> THEN <<>>
    ELSE IF Len(ls) = 1 THEN ls[1]
    ELSE ls[1] \o <<NL>> \o JoinLines(Tail(ls))

RECURSIVE TextsUpTo(_, _)
\* all texts over alphabet A of length at most n
TextsUpTo(A, n) ==
    IF n = 0 THEN {<<>>}
    ELSE LET shorter == TextsUpTo(A, n - 1)
         IN  shorter \cup {Append(s, c) : s \in shorter, c \in A}

-----------------------------------------------------------------------------
(* The pattern compiler: regexp.QuoteMeta, regexp.Compile and the matcher  *)
(* for the part of the RE2 syntax the model draws patterns from: literal   *)
(* characters, ".", an escaped metacharacter, the word boundary \b and an  *)
(* unclosed "(" (a syntax error).  A compiled expression is a sequence of  *)
(* atoms; every atom but the word boundary consumes one character, so an   *)
(* expression made of word boundaries alone matches the empty string.      *)

\* the characters regexp.QuoteMeta escapes: \.+*?()|[]{}^$
SpecialBytes == {BS, ".", "+", "*", "?", "(", ")", "|", "[", "]", "{", "}", "^", "$"}

RECURSIVE QuoteMeta(_)
QuoteMeta(p) ==
    IF p = <<>> THEN <<>>
    ELSE (IF Head(p) \in SpecialBytes THEN <<BS, Head(p)>> ELSE <<Head(p)>>)
         \o QuoteMeta(Tail(p))

LitAtom(c) == [kind |-> "lit", ch |-> c]
AnyAtom == [kind |-> "any", ch |-> ""]
WordBoundaryAtom == [kind |-> "wb", ch |-> ""]

RECURSIVE ParseAtoms(_)
\* the atoms of a source expression; ok is FALSE when it does not parse
ParseAtoms(src) ==
    IF src = <<>> THEN [ok |-> TRUE, atoms |-> <<>>]
    ELSE LET c == Head(src) IN
         IF c = BS THEN
             IF Len(src) < 2 THEN [ok |-> FALSE, atoms |-> <<>>]   \* trailing backslash
             ELSE LET n == src[2]
                      rest == ParseAtoms(SubSeq(src, 3, Len(src)))
                  IN  IF n = "b" THEN [ok |-> rest.ok, atoms |-> <<WordBoundaryAtom>> \o rest.atoms]
                      ELSE IF n \in SpecialBytes THEN [ok |-> rest.ok, atoms |-> <<LitAtom(n)>> \o rest.atoms]
                      ELSE [ok |-> FALSE, atoms |-> <<>>]          \* escape outside the modelled syntax
         ELSE IF c \in {"(", ")"} THEN [ok |-> FALSE, atoms |-> <<>>]  \* missing closing ) / unexpected )
         ELSE LET rest == ParseAtoms(Tail(src))
              IN  [ok |-> rest.ok,
                   atoms |-> <<IF c = "." THEN AnyAtom ELSE LitAtom(c)>> \o rest.atoms]

\* regexp.Compile(flags + src), flags being "(?i)" or ""
RegexpCompile(foldCase, src) ==
    LET p == ParseAtoms(src)
    IN  [ok |-> p.ok, foldCase |-> foldCase, atoms |-> p.atoms]

IsWordAt(t, i) == i >= 1 /\ i <= Len(t) /\ t[i] \in WordChars

\* \b holds between t[p-1] and t[p]
AtWordBoundary(t, p) == IsWordAt(t, p - 1) # IsWordAt(t, p)

AtomMatches(re, a, c) ==
    CASE a.kind = "lit" -> IF re.foldCase THEN ToLowerCh(a.ch) = ToLowerCh(c) ELSE a.ch = c
      [] a.kind = "any" -> c # NL
      [] OTHER -> FALSE

RECURSIVE MatchFrom(_, _, _, _)
\* the end position (exclusive) of the match of atoms k.. of re at position
\* p of t, or 0 when there is none
MatchFrom(re, t, k, p) ==
    IF k > Len(re.atoms) THEN p
    ELSE LET a == re.atoms[k] IN
         IF a.kind = "wb"
         THEN IF AtWordBoundary(t, p) THEN MatchFrom(re, t, k + 1, p) ELSE 0
         ELSE IF p <= Len(t) /\ AtomMatches(re, a, t[p])
              THEN MatchFrom(re, t, k + 1, p + 1)
              ELSE 0

\* end (exclusive) of the match starting at p, 0 when none starts there
MatchEnd(re, t, p) == MatchFrom(re, t, 1, p)

RECURSIVE FindAllIndexFrom(_, _, _, _)
\* the leftmost non-overlapping matches from position p on, as <<start, end>>;
\* prevEnd is the end of the match before (0 when there is none): an empty
\* match that starts where the match before ended is not taken
FindAllIndexFrom(re, t, p, prevEnd) ==
    IF p > Len(t) + 1 THEN <<>>
    ELSE LET e == MatchEnd(re, t, p) IN
         IF e = 0 THEN FindAllIndexFrom(re, t, p + 1, prevEnd)
         ELSE IF e = p
              THEN (IF p # prevEnd THEN <<(<<p, p>>)>> ELSE <<>>)
                   \o FindAllIndexFrom(re, t, p + 1, p)
              ELSE <<(<<p, e>>)>> \o FindAllIndexFrom(re, t, e, e)

\* Regexp.FindAllString(t, -1), as spans
FindAllIndex(re, t) == FindAllIndexFrom(re, t, 1, 0)

\* Regexp.MatchString: some match, empty or not, starts somewhere in t
MatchString(re, t) == \E q \in 1..(Len(t) + 1) : MatchEnd(re, t, q) > 0

\* Regexp.FindString: the leftmost match, "" when there is none
FindString(re, t) ==
    IF ~MatchString(re, t) THEN <<>>
    ELSE LET q == CHOOSE q \in 1..(Len(t) + 1) :
                      /\ MatchEnd(re, t, q) > 0
                      /\ \A r \in 1..(q - 1) : MatchEnd(re, t, r) = 0
         IN  SubSeq(t, q, MatchEnd(re, t, q) - 1)

-----------------------------------------------------------------------------
(* Regexp.expand: the replacement template.  $$ is a dollar sign; $name    *)
(* takes the longest run of letters, digits and underscores as the name;   *)
(* only group 0 exists in the modelled syntax, every other name expands to *)
(* nothing; a $ with no name after it is copied.                           *)

RECURSIVE NameLen(_, _)
\* length of the longest prefix of tpl[i..] made of word characters
NameLen(tpl, i) ==
    IF i <= Len(tpl) /\ tpl[i] \in WordChars THEN 1 + NameLen(tpl, i + 1) ELSE 0

RECURSIVE Expand(_, _)
Expand(tpl, match) ==
    IF tpl = <<>> THEN <<>>
    ELSE IF Head(tpl) # "$" THEN <<Head(tpl)>> \o Expand(Tail(tpl), match)
    ELSE IF Len(tpl) >= 2 /\ tpl[2] = "$" THEN <<"$">> \o Expand(SubSeq(tpl, 3, Len(tpl)), match)
    ELSE LET n == NameLen(tpl, 2) IN
         IF n = 0 THEN <<"$">> \o Expand(Tail(tpl), match)
         ELSE (IF n = 1 /\ tpl[2] = "0" THEN match ELSE <<>>)
              \o Expand(SubSeq(tpl, n + 2, Len(tpl)), match)

RECURSIVE ReplaceFrom(_, _, _, _, _)
\* lastMatchEnd is the end of the match before (1, the start of t, when
\* there is none): an empty match is replaced only past it or at the start
ReplaceFrom(re, t, repl, p, lastMatchEnd) ==
    IF p > Len(t) + 1 THEN <<>>
    ELSE LET e == MatchEnd(re, t, p)
             copied == IF p <= Len(t) THEN <<t[p]>> ELSE <<>>
         IN
         IF e = 0 THEN copied \o ReplaceFrom(re, t, repl, p + 1, lastMatchEnd)
         ELSE IF e = p
              THEN (IF p > lastMatchEnd \/ p = 1 THEN Expand(repl, <<>>) ELSE <<>>)
                   \o copied \o ReplaceFrom(re, t, repl, p + 1, p)
              ELSE Expand(repl, SubSeq(t, p, e - 1)) \o ReplaceFrom(re, t, repl, e, e)

\* Regexp.ReplaceAllString
ReplaceAllString(re, t, repl) == ReplaceFrom(re, t, repl, 1, 1)

-----------------------------------------------------------------------------
(* Documents: what TextFileReader.Read loads from a file.                  *)

RECURSIVE IndexOfNL(_, _)
\* position of the first newline of t at or after i, 0 when there is none
IndexOfNL(t, i) ==
    IF i > Len(t) THEN 0 ELSE IF t[i] = NL THEN i ELSE IndexOfNL(t, i + 1)

RECURSIVE ScanLines(_)
\* the tokens of bufio.Scanner with the default split function: the text
\* between newlines, a last line without newline included
ScanLines(t) ==
    IF t = <<>> THEN <<>>
    ELSE LET i == IndexOfNL(t, 1) IN
         IF i = 0 THEN <<t>>
         ELSE <<SubSeq(t, 1, i - 1)>> \o ScanLines(SubSeq(t, i + 1, Len(t)))

RECURSIVE CountFields(_, _)
\* len(strings.Fields(line)): the number of runs of non-space characters
CountFields(line, i) ==
    IF i > Len(line) THEN 0
    ELSE (IF line[i] \notin SpaceChars /\ (i = 1 \/ line[i - 1] \in SpaceChars) THEN 1 ELSE 0)
         + CountFields(line, i + 1)

RECURSIVE SumFields(_)
SumFields(ls) == IF ls = <<>> THEN 0 ELSE CountFields(Head(ls), 1) + SumFields(Tail(ls))

\* the bytes of the file kept as the content
TextFileReaderRead_KeepsBytes(bytes) ==
    LET lines == ScanLines(bytes)
    IN  [Content   |-> bytes,
         Lines     |-> lines,
         FileType  |-> "txt",
         Size      |-> Len(bytes),
         LineCount |-> Len(lines),
         WordCount |-> SumFields(lines)]

\* the FileContent TextFileReader.Read builds from the bytes of a file
TextFileReaderRead(bytes) ==
    LET lines == ScanLines(bytes)
    IN  [Content   |-> Concat([i \in 1..Len(lines) |-> lines[i] \o <<NL>>]),
         Lines     |-> lines,
         FileType  |-> "txt",
         Size      |-> Len(bytes),
         LineCount |-> Len(lines),
         WordCount |-> SumFields(lines)]

-----------------------------------------------------------------------------
(* CSVFileReader.Read: encoding/csv with its default settings (comma       *)
(* separated, quoted fields, "" for a quote inside one, empty lines        *)
(* skipped, every record as long as the first), each record joined by      *)
(* commas into one line.                                                   *)

QUOTE == "\""

RECURSIVE IndexOfAny(_, _, _)
\* the first position of t at or after i that holds a character of S,
\* Len(t) + 1 when there is none
IndexOfAny(t, i, S) ==
    IF i > Len(t) THEN Len(t) + 1 ELSE IF t[i] \in S THEN i ELSE IndexOfAny(t, i + 1, S)

\* a parsed field: its text, where the text after it starts, and whether a
\* comma ended it (another field of the record follows)
CsvFieldAt(field, next, more) == [ok |-> TRUE, field |-> field, next |-> next, more |-> more]
CsvFieldError == [ok |-> FALSE, field |-> <<>>, next |-> 0, more |-> FALSE]

RECURSIVE CsvQuoted(_, _, _)
\* the rest of a quoted field from position p on, buf being its text so
\* far: up to the closing quote, which a comma, a line break or the end of
\* the input must follow; line breaks inside the quotes belong to the field
CsvQuoted(t, p, buf) ==
    LET i == IndexOfAny(t, p, {QUOTE}) IN
    IF i > Len(t) THEN CsvFieldError
    ELSE LET sofar == buf \o SubSeq(t, p, i - 1) IN
         IF i = Len(t) THEN CsvFieldAt(sofar, i + 1, FALSE)
         ELSE IF t[i + 1] = QUOTE THEN CsvQuoted(t, i + 2, sofar \o <<QUOTE>>)
         ELSE IF t[i + 1] = "," THEN CsvFieldAt(sofar, i + 2, TRUE)
         ELSE IF t[i + 1] = NL THEN CsvFieldAt(sofar, i + 2, FALSE)
         ELSE CsvFieldError

\* the field that starts at position p: quoted, or the text up to the next
\* comma or line break, in which a quote is an error
CsvField(t, p) ==
    IF p <= Len(t) /\ t[p] = QUOTE THEN CsvQuoted(t, p + 1, <<>>)
    ELSE LET q == IndexOfAny(t, p, {",", NL})
             field == SubSeq(t, p, q - 1)
         IN  IF \E j \in DOMAIN field : field[j] = QUOTE THEN CsvFieldError
             ELSE CsvFieldAt(field, IF q > Len(t) THEN q ELSE q + 1, q <= Len(t) /\ t[q] = ",")

RECURSIVE CsvRecord(_, _)
\* the record that starts at position p
CsvRecord(t, p) ==
    LET f == CsvField(t, p) IN
    IF ~f.ok THEN [ok |-> FALSE, record |-> <<>>, next |-> 0]
    ELSE IF f.more
         THEN LET r == CsvRecord(t, f.next)
              IN  [ok |-> r.ok, record |-> <<f.field>> \o r.record, next |-> r.next]
         ELSE [ok |-> TRUE, record |-> <<f.field>>, next |-> f.next]

RECURSIVE CsvRecords(_, _, _)
\* csvReader.Read() until io.EOF; fieldsPerRecord is the length of the
\* first record, 0 before it is read
CsvRecords(t, p, fieldsPerRecord) ==
    IF p > Len(t) THEN [ok |-> TRUE, records |-> <<>>]
    ELSE IF t[p] = NL THEN CsvRecords(t, p + 1, fieldsPerRecord)
    ELSE LET r == CsvRecord(t, p) IN
         IF ~r.ok \/ (fieldsPerRecord > 0 /\ Len(r.record) # fieldsPerRecord)
         THEN [ok |-> FALSE, records |-> <<>>]
         ELSE LET rest == CsvRecords(t, r.next, Len(r.record))
              IN  [ok |-> rest.ok, records |-> <<r.record>> \o rest.records]

RECURSIVE JoinFields(_)
\* strings.Join(record, ",")
JoinFields(record) ==
    IF record = <<>> THEN <<>>
    ELSE IF Len(record) = 1 THEN record[1]
    ELSE record[1] \o <<",">> \o JoinFields(Tail(record))

\* the FileContent of a read that returned none
EmptyDoc ==
    [Content |-> <<>>, Lines |-> <<>>, FileType |-> "", Size |-> 0, LineCount |-> 0, WordCount |-> 0]

\* contentBuilder.String(): every line followed by a line break
BuiltContent(lines) == Concat([i \in 1..Len(lines) |-> lines[i] \o <<NL>>])

\* the FileContent CSVFileReader.Read returns for the records it read and
\* the lines it made of them
CSVFileContent(bytes, records, lines) ==
    [Content   |-> BuiltContent(lines),
     Lines     |-> lines,
     FileType  |-> "csv",
     Size      |-> Len(bytes),
     LineCount |-> Len(records),
     WordCount |-> SumFields(Concat(records))]

\* what CSVFileReader.Read returns once csvReader.Read() returned parsed
CSVReadRecords(bytes, parsed) ==
    IF ~parsed.ok THEN [err |-> "error reading CSV record", doc |-> EmptyDoc]
    ELSE [err |-> "nil",
          doc |-> CSVFileContent(bytes, parsed.records,
                      [i \in 1..Len(parsed.records) |-> JoinFields(parsed.records[i])])]

\* CSVFileReader.Read on the bytes of a file
CSVFileReaderRead(bytes) == CSVReadRecords(bytes, CsvRecords(bytes, 1, 0))

-----------------------------------------------------------------------------
(* JSONFileReader.Read: the lines as the text reader scans them, and the   *)
(* content accepted when json.Decoder.Decode finds a JSON value at its     *)
(* start.  The values of the model are numbers, strings without escapes    *)
(* and arrays.                                                             *)

\* the first position of t at or after p that holds no JSON whitespace
SkipSpace(t, p) == IndexOfAny(t, p, {t[i] : i \in 1..Len(t)} \ SpaceChars)

RECURSIVE JsonEnd(_, _, _)
\* the position after the JSON value that starts, after whitespace, at p
\* (elements unset), or after the closing bracket of an array whose next
\* element starts at p (elements set); 0 when the text is malformed
JsonEnd(t, p, elements) ==
    IF elements
    THEN LET v == JsonEnd(t, p, FALSE) IN
         IF v = 0 THEN 0
         ELSE LET q == SkipSpace(t, v) IN
              IF q > Len(t) THEN 0
              ELSE IF t[q] = "]" THEN q + 1
              ELSE IF t[q] = "," THEN JsonEnd(t, q + 1, TRUE)
              ELSE 0
    ELSE LET q == SkipSpace(t, p) IN
         IF q > Len(t) THEN 0
         ELSE IF t[q] = "0" THEN q + 1
         ELSE IF t[q] \in Digits THEN IndexOfAny(t, q, {t[i] : i \in 1..Len(t)} \ Digits)
         ELSE IF t[q] = QUOTE
              THEN LET i == IndexOfAny(t, q + 1, {QUOTE, NL, BS})
                   IN  IF i <= Len(t) /\ t[i] = QUOTE THEN i + 1 ELSE 0
         ELSE IF t[q] = "["
              THEN LET first == SkipSpace(t, q + 1)
                   IN  IF first <= Len(t) /\ t[first] = "]" THEN first + 1
                       ELSE JsonEnd(t, q + 1, TRUE)
         ELSE 0

\* the position after the JSON value that starts, after whitespace, at p;
\* 0 when there is none
JsonValueEnd(t, p) == JsonEnd(t, p, FALSE)

\* the position after the closing bracket of an array whose next element
\* starts at p; 0 when the array is malformed
JsonElementsEnd(t, p) == JsonEnd(t, p, TRUE)

\* decoder.Decode(&jsonData) returns no error
DecodeOk(contentStr) == JsonValueEnd(contentStr, 1) > 0

\* what JSONFileReader.Read returns for the lines it scanned and the
\* content it built of them
JSONValidated(bytes, lines, contentStr) ==
    IF ~DecodeOk(contentStr) THEN [err |-> "contains invalid JSON", doc |-> EmptyDoc]
    ELSE [err |-> "nil",
          doc |-> [Content   |-> contentStr,
                   Lines     |-> lines,
                   FileType  |-> "json",
                   Size      |-> Len(bytes),
                   LineCount |-> Len(lines),
                   WordCount |-> SumFields(lines)]]

JSONScanned(bytes, lines) == JSONValidated(bytes, lines, BuiltContent(lines))

\* JSONFileReader.Read on the bytes of a file
JSONFileReaderRead(bytes) == JSONScanned(bytes, ScanLines(bytes))

-----------------------------------------------------------------------------
(* Paths, the clock and the filesystem calls.                              *)

\* the source file of the operations, an output file and a backup directory
SRC == "d/f.txt"
OUT == "out.txt"
BDIR == "bk"

\* filepath.Base, for the paths of the model
Base(p) == IF p = SRC THEN "f.txt" ELSE p

\* filepath.Join(dir, name)
Join(dir, name) == dir \o "/" \o name

\* time.Now().Format("20060102_150405"): the clock cut to whole seconds
FormatTimestamp(t) == ToString(t \div TicksPerSecond)

\* outcomes of os.WriteFile: the file is written; the open fails and the
\* file is left as it was; the write fails after the open truncated the file
\* and keep < len(data) bytes were written
WriteOutcomes ==
    {[kind |-> "ok", keep |-> 0], [kind |-> "open", keep |-> 0]}
    \cup {[kind |-> "partial", keep |-> k] : k \in 0..MaxKeep}

WriteOk == [kind |-> "ok", keep |-> 0]

\* what the environment does to the filesystem calls of one operation
Envs == [read : {"ok", "fail"}, mkdir : {"ok", "fail"}, bak : WriteOutcomes, out : WriteOutcomes]

NoFaults == [read |-> "ok", mkdir |-> "ok", bak |-> WriteOk, out |-> WriteOk]

\* os.WriteFile(path, data, 0644) on filesystem F with outcome w
OsWriteFile(F, path, data, w) ==
    CASE w.kind = "ok"      -> [fs |-> (path :> data) @@ F, err |-> FALSE]
      [] w.kind = "partial" -> [fs |-> (path :> SubSeq(data, 1, w.keep)) @@ F, err |-> TRUE]
      [] OTHER              -> [fs |-> F, err |-> TRUE]

\* a write outcome the data allows: a partial write keeps a proper prefix
Possible(w, data) == w.kind = "partial" => w.keep < Len(data)

LogEntry(call, path, outcome) == [call |-> call, path |-> path, outcome |-> outcome]

-----------------------------------------------------------------------------
(* ProcessOptions, ProcessingResult and errors.                            *)

ZeroOptions ==
    [Pattern |-> <<>>, RegexMode |-> FALSE, CaseSensitive |-> FALSE, WholeWord |-> FALSE,
     ContextLines |-> 0, ReplaceWith |-> <<>>, CreateBackup |-> FALSE, BackupDir |-> "",
     InvertMatch |-> FALSE, OnlyMatching |-> FALSE, TransformType |-> "",
     FileName |-> "", OutputFile |-> "", DryRun |-> FALSE]

\* the nil *ProcessingResult
NilResult ==
    [isNil |-> TRUE, FileName |-> "", Operation |-> "", MatchesFound |-> 0,
     LinesProcessed |-> 0, Success |-> FALSE, BackupPath |-> "", ModifiedContent |-> <<>>]

NewResult(o, operation, matches, lineCount, backupPath, modified) ==
    [isNil |-> FALSE, FileName |-> o.FileName, Operation |-> operation,
     MatchesFound |-> matches, LinesProcessed |-> lineCount, Success |-> TRUE,
     BackupPath |-> backupPath, ModifiedContent |-> modified]

\* an error value: what failed, and the pattern text the message carries
\* the pattern text left out of the message
Error_DropsPattern(kind, pattern) == [kind |-> kind, pattern |-> <<>>]

Error(kind, pattern) == [kind |-> kind, pattern |-> pattern]
NoError == Error("nil", <<>>)

\* what an operation returns and leaves behind
Outcome(res, err, F, D, log) == [res |-> res, err |-> err, fs |-> F, dirs |-> D, log |-> log]
Failure(kind, pattern, F, D, log) == Outcome(NilResult, Error(kind, pattern), F, D, log)

-----------------------------------------------------------------------------
(* ReplaceProcessorStrategy.                                               *)

\* the check of the replacement text left out
ReplaceValidateOptions_AllowsEmptyReplacement(o) ==
    IF o.Pattern = <<>> THEN "search pattern cannot be empty" ELSE "nil"

ReplaceValidateOptions(o) ==
    IF o.Pattern = <<>> THEN "search pattern cannot be empty"
    ELSE IF o.ReplaceWith = <<>> THEN "replacement text cannot be empty"
    ELSE "nil"

\* the pattern compilation of ReplaceProcessorStrategy.Process
ReplaceCompile(o) ==
    IF o.RegexMode
    THEN RegexpCompile(~o.CaseSensitive, o.Pattern)
    ELSE LET escapedPattern == QuoteMeta(o.Pattern)
         IN  RegexpCompile(~o.CaseSensitive,
                           IF o.WholeWord THEN <<BS, "b">> \o escapedPattern \o <<BS, "b">>
                           ELSE escapedPattern)

\* createBackup(fileName, backupDir) at clock t: the backup path ("" on
\* failure), whether it failed, the filesystem after it and its calls
CreateBackup(F, D, t, fileName, backupDir, e) ==
    LET readLog == <<LogEntry("ReadFile", fileName, e.read)>>
    IN  IF fileName \notin DOMAIN F \/ e.read = "fail"
        THEN [path |-> "", err |-> TRUE, fs |-> F, dirs |-> D,
              log |-> <<LogEntry("ReadFile", fileName, "fail")>>]
        ELSE
        LET content == F[fileName]
            timestamp == FormatTimestamp(t)
            backupName == Base(fileName) \o ".backup_" \o timestamp
            mkdirLog == IF backupDir # "" THEN <<LogEntry("MkdirAll", backupDir, e.mkdir)>> ELSE <<>>
        IN  IF backupDir # "" /\ e.mkdir = "fail"
            THEN [path |-> "", err |-> TRUE, fs |-> F, dirs |-> D, log |-> readLog \o mkdirLog]
            ELSE
            LET backupPath == IF backupDir # "" THEN Join(backupDir, backupName)
                              ELSE fileName \o ".backup_" \o timestamp
                D1 == IF backupDir # "" THEN D \cup {backupDir} ELSE D
                w == OsWriteFile(F, backupPath, content, e.bak)
                writeLog == <<LogEntry("WriteBackup", backupPath, e.bak.kind)>>
            IN  [path |-> IF w.err THEN "" ELSE backupPath, err |-> w.err,
                 fs |-> w.fs, dirs |-> D1, log |-> readLog \o mkdirLog \o writeLog]

\* the backup taken only when the source itself is written over
TakesBackup_OnlyInPlace(o) == o.CreateBackup /\ ~o.DryRun /\ o.OutputFile = ""

\* the backup taken whether or not the run is a dry run
TakesBackup_IgnoresDryRun(o) == o.CreateBackup

\* the guard of the backup: if options.CreateBackup && !options.DryRun
TakesBackup(o) == o.CreateBackup /\ ~o.DryRun

\* the matches counted in the content after the substitution
ReplaceResult_CountsAfterReplacing(o, pattern, doc, backupPath) ==
    LET originalContent == doc.Content
        modifiedContent == ReplaceAllString(pattern, originalContent, o.ReplaceWith)
        matches == FindAllIndex(pattern, modifiedContent)
        matchCount == Len(matches)
    IN  NewResult(o, "replace", matchCount, doc.LineCount, backupPath, modifiedContent)

\* a dry run that previews the content and leaves the matches uncounted
ReplaceResult_DryRunSkipsCount(o, pattern, doc, backupPath) ==
    LET originalContent == doc.Content
        modifiedContent == ReplaceAllString(pattern, originalContent, o.ReplaceWith)
        matches == IF o.DryRun THEN <<>> ELSE FindAllIndex(pattern, originalContent)
        matchCount == Len(matches)
    IN  NewResult(o, "replace", matchCount, doc.LineCount, backupPath, modifiedContent)

\* the count kept between invocations and added to
ReplaceResult_CountsAcrossCalls(o, pattern, doc, backupPath) ==
    LET originalContent == doc.Content
        modifiedContent == ReplaceAllString(pattern, originalContent, o.ReplaceWith)
        matches == FindAllIndex(pattern, originalContent)
        matchCount == Len(matches) + last.res.MatchesFound
    IN  NewResult(o, "replace", matchCount, doc.LineCount, backupPath, modifiedContent)

\* the result Replace builds: the substitution over the whole content and
\* the count of the matches found in the original content
ReplaceResult(o, pattern, doc, backupPath) ==
    LET originalContent == doc.Content
        modifiedContent == ReplaceAllString(pattern, originalContent, o.ReplaceWith)
        matches == FindAllIndex(pattern, originalContent)
        matchCount == Len(matches)
    IN  NewResult(o, "replace", matchCount, doc.LineCount, backupPath, modifiedContent)

\* ReplaceProcessorStrategy.Process(content, options) on filesystem F with
\* directories D at clock t, the environment answering the calls as e says
ReplaceProcess(doc, o, e, F, D, t) ==
    IF ReplaceValidateOptions(o) # "nil"
    THEN Failure("invalid replace options", <<>>, F, D, <<>>)
    ELSE
    LET pattern == ReplaceCompile(o) IN
    IF ~pattern.ok
    THEN (IF o.RegexMode THEN Failure("invalid regex pattern", o.Pattern, F, D, <<>>)
          ELSE Failure("failed to compile replace pattern", <<>>, F, D, <<>>))
    ELSE
    LET b == IF TakesBackup(o) THEN CreateBackup(F, D, t, o.FileName, o.BackupDir, e)
             ELSE [path |-> "", err |-> FALSE, fs |-> F, dirs |-> D, log |-> <<>>]
    IN
    IF b.err
    THEN Failure("failed to create backup", <<>>, b.fs, b.dirs, b.log)
    ELSE
    LET result == ReplaceResult(o, pattern, doc, b.path)
        modifiedContent == result.ModifiedContent
    IN
    IF o.DryRun
    THEN Outcome(result, NoError, b.fs, b.dirs, b.log)
    ELSE
    LET outputFile == IF o.OutputFile = "" THEN o.FileName ELSE o.OutputFile
        w == OsWriteFile(b.fs, outputFile, modifiedContent, e.out)
        log == b.log \o <<LogEntry("WriteOutput", outputFile, e.out.kind)>>
    IN  IF w.err
        THEN Failure("failed to write modified content", <<>>, w.fs, b.dirs, log)
        ELSE Outcome(result, NoError, w.fs, b.dirs, log)

\* the writes a Replace with options o attempts, for the data they carry:
\* the environment's answers must be possible for them
ReplaceEnvPossible(doc, o, e, F) ==
    /\ (o.FileName \in DOMAIN F => Possible(e.bak, F[o.FileName]))
    /\ LET pattern == ReplaceCompile(o)
       IN  pattern.ok => Possible(e.out, ReplaceAllString(pattern, doc.Content, o.ReplaceWith))

-----------------------------------------------------------------------------
(* FilterProcessorStrategy.                                                *)

FilterValidateOptions(o) ==
    IF o.Pattern = <<>> THEN "filter pattern cannot be empty" ELSE "nil"

\* the case-insensitive flag never set
FilterCompile_IgnoresCaseFlag(o) ==
    IF o.RegexMode
    THEN RegexpCompile(FALSE, o.Pattern)
    ELSE RegexpCompile(FALSE, QuoteMeta(o.Pattern))

\* the pattern compilation of FilterProcessorStrategy.Process (WholeWord is
\* not read)
FilterCompile(o) ==
    IF o.RegexMode
    THEN RegexpCompile(~o.CaseSensitive, o.Pattern)
    ELSE RegexpCompile(~o.CaseSensitive, QuoteMeta(o.Pattern))

\* the inversion left out
Selects_IgnoresInvert(o, matched) == matched

\* whether a line is selected: the match test, inverted when
\* options.InvertMatch is set
Selects(o, matched) == IF o.InvertMatch THEN ~matched ELSE matched

\* the matching part appended even when it is the empty string
EmittedFor_KeepsEmptyMatch(o, matches, line, match) ==
    IF ~matches THEN <<>>
    ELSE IF o.OnlyMatching THEN <<match>>
    ELSE <<line>>

\* what the loop appends for one line: nothing for a line that is not
\* selected, the matching part (when it is not empty) under OnlyMatching,
\* the whole line otherwise
EmittedFor(o, matches, line, match) ==
    IF ~matches THEN <<>>
    ELSE IF o.OnlyMatching
         THEN (IF match # <<>> THEN <<match>> ELSE <<>>)
         ELSE <<line>>

RECURSIVE FilterLines(_, _, _)
\* the loop over content.Lines: the emitted entries and the match count
FilterLines(pattern, o, lines) ==
    IF lines = <<>> THEN [filteredLines |-> <<>>, matchCount |-> 0]
    ELSE
    LET line == Head(lines)
        rest == FilterLines(pattern, o, Tail(lines))
        matched == MatchString(pattern, line)
        matches == Selects(o, matched)
        match == FindString(pattern, line)
        emitted == EmittedFor(o, matches, line, match)
    IN  [filteredLines |-> emitted \o rest.filteredLines,
         matchCount |-> Len(emitted) + rest.matchCount]

\* the trailing line break left out
FilterContent_NoTrailingNewline(filteredLines) == JoinLines(filteredLines)

FilterContent(filteredLines) ==
    IF Len(filteredLines) > 0 THEN JoinLines(filteredLines) \o <<NL>> ELSE <<>>

\* the write made in a dry run too
FilterWrites_IgnoresDryRun(o) == o.OutputFile # ""

\* the guard of the write: if options.OutputFile != "" && !options.DryRun
FilterWrites(o) == o.OutputFile # "" /\ ~o.DryRun

\* the error of the write dropped
FilterProcess_IgnoresWriteError(doc, o, e, F, D, t) ==
    IF FilterValidateOptions(o) # "nil"
    THEN Failure("invalid filter options", <<>>, F, D, <<>>)
    ELSE
    LET pattern == FilterCompile(o) IN
    IF ~pattern.ok
    THEN (IF o.RegexMode THEN Failure("invalid regex pattern", o.Pattern, F, D, <<>>)
          ELSE Failure("failed to compile filter pattern", <<>>, F, D, <<>>))
    ELSE
    LET f == FilterLines(pattern, o, doc.Lines)
        filteredContent == FilterContent(f.filteredLines)
        result == NewResult(o, "filter", f.matchCount, doc.LineCount, "", filteredContent)
    IN
    IF FilterWrites(o)
    THEN LET w == OsWriteFile(F, o.OutputFile, filteredContent, e.out)
             log == <<LogEntry("WriteOutput", o.OutputFile, e.out.kind)>>
         IN  Outcome(result, NoError, w.fs, D, log)
    ELSE Outcome(result, NoError, F, D, <<>>)

FilterProcess(doc, o, e, F, D, t) ==
    IF FilterValidateOptions(o) # "nil"
    THEN Failure("invalid filter options", <<>>, F, D, <<>>)
    ELSE
    LET pattern == FilterCompile(o) IN
    IF ~pattern.ok
    THEN (IF o.RegexMode THEN Failure("invalid regex pattern", o.Pattern, F, D, <<>>)
          ELSE Failure("failed to compile filter pattern", <<>>, F, D, <<>>))
    ELSE
    LET f == FilterLines(pattern, o, doc.Lines)
        filteredContent == FilterContent(f.filteredLines)
        result == NewResult(o, "filter", f.matchCount, doc.LineCount, "", filteredContent)
    IN
    IF FilterWrites(o)
    THEN LET w == OsWriteFile(F, o.OutputFile, filteredContent, e.out)
             log == <<LogEntry("WriteOutput", o.OutputFile, e.out.kind)>>
         IN  IF w.err
             THEN Failure("failed to write filtered content", <<>>, w.fs, D, log)
             ELSE Outcome(result, NoError, w.fs, D, log)
    ELSE Outcome(result, NoError, F, D, <<>>)

FilterEnvPossible(doc, o, e, F) ==
    LET pattern == FilterCompile(o)
    IN  pattern.ok =>
            Possible(e.out, FilterContent(FilterLines(pattern, o, doc.Lines).filteredLines))

-----------------------------------------------------------------------------
(* TransformProcessorStrategy.                                             *)

\* strings.ToLower on the transform type names of the model
ToLowerName(s) ==
    CASE s = "UPPER" -> "upper"
      [] s = "Trim"  -> "trim"
      [] OTHER       -> s

ValidTypes == <<"upper", "lower", "title", "trim">>

\* the comparison with the valid types left out
TransformValidateOptions_OnlyChecksEmpty(o) ==
    IF o.TransformType = "" THEN "transform type cannot be empty" ELSE "nil"

TransformValidateOptions(o) ==
    IF o.TransformType = "" THEN "transform type cannot be empty"
    ELSE IF \E i \in 1..Len(ValidTypes) : ToLowerName(o.TransformType) = ValidTypes[i] THEN "nil"
    ELSE "invalid transform type"

\* strings.Title: the first letter of every word in upper case, a word
\* starting after any character that is no letter, digit or underscore
TitleText(t) ==
    [i \in 1..Len(t) |-> IF i = 1 \/ t[i - 1] \notin WordChars THEN ToUpperCh(t[i]) ELSE t[i]]

RECURSIVE TrimLeft(_)
TrimLeft(line) ==
    IF line # <<>> /\ Head(line) \in SpaceChars THEN TrimLeft(Tail(line)) ELSE line

RECURSIVE TrimRight(_)
TrimRight(line) ==
    IF line # <<>> /\ line[Len(line)] \in SpaceChars
    THEN TrimRight(SubSeq(line, 1, Len(line) - 1)) ELSE line

\* the trailing whitespace kept
TrimSpace_KeepsTrailing(line) == TrimLeft(line)

\* strings.TrimSpace
TrimSpace(line) == TrimRight(TrimLeft(line))

\* the switch of TransformProcessorStrategy.Process; ok is FALSE in its
\* default branch
TransformContent(doc, o) ==
    LET kind == ToLowerName(o.TransformType) IN
    CASE kind = "upper" -> [ok |-> TRUE, text |-> ToUpperText(doc.Content)]
      [] kind = "lower" -> [ok |-> TRUE, text |-> ToLowerText(doc.Content)]
      [] kind = "title" -> [ok |-> TRUE, text |-> TitleText(ToLowerText(doc.Content))]
      [] kind = "trim"  ->
            LET trimmedLines == [i \in 1..Len(doc.Lines) |-> TrimSpace(doc.Lines[i])]
            IN  [ok |-> TRUE,
                 text |-> IF Len(trimmedLines) > 0 THEN JoinLines(trimmedLines) \o <<NL>>
                          ELSE JoinLines(trimmedLines)]
      [] OTHER -> [ok |-> FALSE, text |-> <<>>]

\* the output written over the source whatever options.OutputFile says
TransformProcess_WritesSource(doc, o, e, F, D, t) ==
    IF TransformValidateOptions(o) # "nil"
    THEN Failure("invalid transform options", <<>>, F, D, <<>>)
    ELSE
    LET tr == TransformContent(doc, o) IN
    IF ~tr.ok
    THEN Failure("unsupported transform type", <<>>, F, D, <<>>)
    ELSE
    LET transformedContent == tr.text
        result == NewResult(o, "transform", 1, doc.LineCount, "", transformedContent)
    IN
    IF o.DryRun
    THEN Outcome(result, NoError, F, D, <<>>)
    ELSE
    LET outputFile == o.FileName
        w == OsWriteFile(F, outputFile, transformedContent, e.out)
        log == <<LogEntry("WriteOutput", outputFile, e.out.kind)>>
    IN  IF w.err
        THEN Failure("failed to write transformed content", <<>>, w.fs, D, log)
        ELSE Outcome(result, NoError, w.fs, D, log)

TransformProcess(doc, o, e, F, D, t) ==
    IF TransformValidateOptions(o) # "nil"
    THEN Failure("invalid transform options", <<>>, F, D, <<>>)
    ELSE
    LET tr == TransformContent(doc, o) IN
    IF ~tr.ok
    THEN Failure("unsupported transform type", <<>>, F, D, <<>>)
    ELSE
    LET transformedContent == tr.text
        result == NewResult(o, "transform", 1, doc.LineCount, "", transformedContent)
    IN
    IF o.DryRun
    THEN Outcome(result, NoError, F, D, <<>>)
    ELSE
    LET outputFile == IF o.OutputFile = "" THEN o.FileName ELSE o.OutputFile
        w == OsWriteFile(F, outputFile, transformedContent, e.out)
        log == <<LogEntry("WriteOutput", outputFile, e.out.kind)>>
    IN  IF w.err
        THEN Failure("failed to write transformed content", <<>>, w.fs, D, log)
        ELSE Outcome(result, NoError, w.fs, D, log)

TransformEnvPossible(doc, o, e, F) ==
    LET tr == TransformContent(doc, o) IN tr.ok => Possible(e.out, tr.text)

-----------------------------------------------------------------------------
(* SearchProcessorStrategy.                                                *)

\* the check of the pattern left out
SearchValidateOptions_AllowsEmptyPattern(o) ==
    IF o.ContextLines < 0 THEN "context lines cannot be negative" ELSE "nil"

SearchValidateOptions(o) ==
    IF o.Pattern = <<>> THEN "search pattern cannot be empty"
    ELSE IF o.ContextLines < 0 THEN "context lines cannot be negative"
    ELSE "nil"

\* the literal pattern compiled without regexp.QuoteMeta
SearchCompile_SkipsQuoteMeta(o) ==
    IF o.RegexMode
    THEN RegexpCompile(~o.CaseSensitive, o.Pattern)
    ELSE LET escapedPattern == o.Pattern
         IN  RegexpCompile(~o.CaseSensitive,
                           IF o.WholeWord THEN <<BS, "b">> \o escapedPattern \o <<BS, "b">>
                           ELSE escapedPattern)

\* the pattern compilation of SearchProcessorStrategy.Process
SearchCompile(o) ==
    IF o.RegexMode
    THEN RegexpCompile(~o.CaseSensitive, o.Pattern)
    ELSE LET escapedPattern == QuoteMeta(o.Pattern)
         IN  RegexpCompile(~o.CaseSensitive,
                           IF o.WholeWord THEN <<BS, "b">> \o escapedPattern \o <<BS, "b">>
                           ELSE escapedPattern)

Max(a, b) == IF a >= b THEN a ELSE b
Min(a, b) == IF a <= b THEN a ELSE b

\* the context that stops at the matching line's successor short by one
ContextOf_DropsLastLine(lines, i, contextLines) ==
    LET start == Max(0, i - contextLines)
        end == Min(Len(lines), i + contextLines)
    IN  IF contextLines > 0 THEN SubSeq(lines, start + 1, end) ELSE <<>>

\* the context of the match at 0-based index i: lines[start:end] when
\* context lines are requested, the nil slice otherwise
ContextOf(lines, i, contextLines) ==
    LET start == Max(0, i - contextLines)
        end == Min(Len(lines), i + contextLines + 1)
    IN  IF contextLines > 0 THEN SubSeq(lines, start + 1, end) ELSE <<>>

RECURSIVE SearchResultsFrom(_, _, _, _)
\* the loop over the lines from 0-based index i on: one SearchResult for
\* every matching line
SearchResultsFrom(pattern, o, lines, i) ==
    IF i >= Len(lines) THEN <<>>
    ELSE
    LET line == lines[i + 1]
        rest == SearchResultsFrom(pattern, o, lines, i + 1)
    IN  IF MatchString(pattern, line)
        THEN LET context == ContextOf(lines, i, o.ContextLines)
             IN  <<[FileName |-> o.FileName, LineNumber |-> i + 1, Line |-> line,
                    Match |-> FindString(pattern, line), Context |-> context]>> \o rest
        ELSE rest

SearchResults(doc, o) == SearchResultsFrom(SearchCompile(o), o, doc.Lines, 0)

\* the occurrences in the whole content counted instead of the matching lines
SearchProcess_CountsOccurrences(doc, o, e, F, D, t) ==
    IF SearchValidateOptions(o) # "nil"
    THEN Failure("invalid search options", <<>>, F, D, <<>>)
    ELSE
    LET pattern == SearchCompile(o) IN
    IF ~pattern.ok
    THEN (IF o.RegexMode THEN Failure("invalid regex pattern", o.Pattern, F, D, <<>>)
          ELSE Failure("failed to compile search pattern", <<>>, F, D, <<>>))
    ELSE
    LET results == SearchResultsFrom(pattern, o, doc.Lines, 0)
        occurrences == FindAllIndex(pattern, doc.Content)
        result == NewResult(o, "search", Len(occurrences), Len(doc.Lines), "", <<>>)
    IN  [results |-> results] @@ Outcome(result, NoError, F, D, <<>>)

SearchProcess(doc, o, e, F, D, t) ==
    IF SearchValidateOptions(o) # "nil"
    THEN Failure("invalid search options", <<>>, F, D, <<>>)
    ELSE
    LET pattern == SearchCompile(o) IN
    IF ~pattern.ok
    THEN (IF o.RegexMode THEN Failure("invalid regex pattern", o.Pattern, F, D, <<>>)
          ELSE Failure("failed to compile search pattern", <<>>, F, D, <<>>))
    ELSE
    LET results == SearchResultsFrom(pattern, o, doc.Lines, 0)
        result == NewResult(o, "search", Len(results), Len(doc.Lines), "", <<>>)
    IN  [results |-> results] @@ Outcome(result, NoError, F, D, <<>>)

-----------------------------------------------------------------------------
(* The processor registry (TextProcessorStrategy) and its factory.         *)

\* the processor types and the operation type each reports
Processors ==
    {"SearchProcessorStrategy", "ReplaceProcessorStrategy",
     "FilterProcessorStrategy", "TransformProcessorStrategy"}

GetOperationType(processor) ==
    CASE processor = "SearchProcessorStrategy"    -> "search"
      [] processor = "ReplaceProcessorStrategy"   -> "replace"
      [] processor = "FilterProcessorStrategy"    -> "filter"
      [] processor = "TransformProcessorStrategy" -> "transform"

\* processor.Process; content is the FileContent behind the pointer the
\* call was given, as the call leaves it: no strategy assigns to its fields
Process(processor, doc, o, e, F, D, t) ==
    [content |-> doc] @@
    CASE processor = "SearchProcessorStrategy"    -> SearchProcess(doc, o, e, F, D, t)
      [] processor = "ReplaceProcessorStrategy"   -> ReplaceProcess(doc, o, e, F, D, t)
      [] processor = "FilterProcessorStrategy"    -> FilterProcess(doc, o, e, F, D, t)
      [] processor = "TransformProcessorStrategy" -> TransformProcess(doc, o, e, F, D, t)

\* the writes of processor.Process can fail the way e says
EnvPossible(processor, doc, o, e, F) ==
    CASE processor = "ReplaceProcessorStrategy"   -> ReplaceEnvPossible(doc, o, e, F)
      [] processor = "FilterProcessorStrategy"    -> FilterEnvPossible(doc, o, e, F)
      [] processor = "TransformProcessorStrategy" -> TransformEnvPossible(doc, o, e, F)
      [] OTHER -> TRUE

\* the empty processors map
NewTextProcessorStrategy == <<>>

\* tps.processors[processor.GetOperationType()] = processor
AddProcessor(tps, processor) == (GetOperationType(processor) :> processor) @@ tps

NewDefaultTextProcessorStrategy ==
    AddProcessor(
        AddProcessor(
            AddProcessor(
                AddProcessor(NewTextProcessorStrategy, "FilterProcessorStrategy"),
                "ReplaceProcessorStrategy"),
            "FilterProcessorStrategy"),
        "TransformProcessorStrategy")

\* GetSupportedOperations, as a set (the map is iterated in no fixed order)
GetSupportedOperations(tps) == DOMAIN tps

ProcessText(tps, operationType, doc, o, e, F, D, t) ==
    IF operationType \notin DOMAIN tps
    THEN Failure("unsupported operation type", <<>>, F, D, <<>>)
    ELSE Process(tps[operationType], doc, o, e, F, D, t)

-----------------------------------------------------------------------------
(* The reader registry (FileReaderStrategy), its readers and its factory.   *)

\* filepath.Ext, for the paths of the model
Ext(p) ==
    CASE p \in {SRC, OUT, "n.txt", "gone.txt"} -> ".txt"
      [] p = "N.TXT"    -> ".TXT"
      [] p = "n.text"   -> ".text"
      [] p = "n.log"    -> ".log"
      [] p = "n.csv"    -> ".csv"
      [] p = "n.Csv"    -> ".Csv"
      [] p = "n.tsv"    -> ".tsv"
      [] p = "n.json"   -> ".json"
      [] p = "n.jsonl"  -> ".jsonl"
      [] p = "n.ndjson" -> ".ndjson"
      [] p = "n.mock"   -> ".mock"
      [] p = "n.xyz"    -> ".xyz"
      [] OTHER          -> ""

\* strings.ToLower, for the extensions of the model
ToLowerExt(extension) ==
    CASE extension = ".TXT" -> ".txt"
      [] extension = ".Csv" -> ".csv"
      [] OTHER              -> extension

\* the readers of package reader, those of package strategies, and the
\* MockReader of the tests
Reader(pkg, name, extensions) == [pkg |-> pkg, name |-> name, extensions |-> extensions]

TextFileReader(pkg) == Reader(pkg, "TextFileReader", <<".txt", ".text", ".log">>)
CSVFileReader(pkg) == Reader(pkg, "CSVFileReader", <<".csv", ".tsv">>)
JSONFileReader(pkg) == Reader(pkg, "JSONFileReader", <<".json", ".jsonl", ".ndjson">>)
MockReader(extensions) == Reader("reader_test", "MockReader", extensions)

SupportedExtensions(reader) == reader.extensions

\* the extensions matched exactly
SupportsFileType_CaseSensitive(reader, extension) ==
    \E i \in 1..Len(SupportedExtensions(reader)) : extension = SupportedExtensions(reader)[i]

SupportsFileType(reader, extension) ==
    \E i \in 1..Len(SupportedExtensions(reader)) :
        ToLowerExt(extension) = SupportedExtensions(reader)[i]

\* what MockReader.Read returns for every file it can open
MockDocument(bytes) ==
    [Content |-> <<"m">>, Lines |-> <<(<<"m">>)>>, FileType |-> "mock", Size |-> Len(bytes),
     LineCount |-> 1, WordCount |-> 2]

\* reader.Read(filename): the file is opened, then read as the reader reads
Read(reader, F, filename, e) ==
    LET log == <<LogEntry("Open", filename, e.read)>> IN
    IF filename \notin DOMAIN F \/ e.read = "fail"
    THEN [err |-> "failed to open", doc |-> EmptyDoc,
          log |-> <<LogEntry("Open", filename, "fail")>>]
    ELSE [log |-> log] @@
         CASE reader.name = "TextFileReader" ->
                  [err |-> "nil", doc |-> TextFileReaderRead(F[filename])]
           [] reader.name = "CSVFileReader"  -> CSVFileReaderRead(F[filename])
           [] reader.name = "JSONFileReader" -> JSONFileReaderRead(F[filename])
           [] OTHER -> [err |-> "nil", doc |-> MockDocument(F[filename])]

NewFileReaderStrategy ==
    <<TextFileReader("reader"), CSVFileReader("reader"), JSONFileReader("reader")>>

\* the new reader put in front of the others
AddReader_Prepends(frs, reader) == <<reader>> \o frs

\* frs.readers = append(frs.readers, reader)
AddReader(frs, reader) == Append(frs, reader)

NewDefaultFileReaderStrategy ==
    AddReader(
        AddReader(
            AddReader(NewFileReaderStrategy, TextFileReader("strategies")),
            CSVFileReader("strategies")),
        JSONFileReader("strategies"))

GetReaderCount(frs) == Len(frs)

\* the index of the first reader that supports the extension, 0 when the
\* loop over the readers finds none
ReaderIndexFor(frs, extension) ==
    IF \E i \in 1..Len(frs) : SupportsFileType(frs[i], extension)
    THEN CHOOSE i \in 1..Len(frs) :
            /\ SupportsFileType(frs[i], extension)
            /\ \A j \in 1..(i - 1) : ~SupportsFileType(frs[j], extension)
    ELSE 0

RECURSIVE AppendNew(_, _)
\* types with the extensions of exts it does not hold yet appended in order
AppendNew(types, exts) ==
    IF exts = <<>> THEN types
    ELSE AppendNew(IF \E i \in 1..Len(types) : types[i] = Head(exts) THEN types
                   ELSE Append(types, Head(exts)),
                   Tail(exts))

RECURSIVE SupportedTypesFrom(_, _)
SupportedTypesFrom(frs, types) ==
    IF frs = <<>> THEN types
    ELSE SupportedTypesFrom(Tail(frs), AppendNew(types, SupportedExtensions(Head(frs))))

GetSupportedTypes(frs) == SupportedTypesFrom(frs, <<>>)

\* the nil FileReader
NilReader == Reader("", "", <<>>)

GetReaderForExtension(frs, extension) ==
    LET i == ReaderIndexFor(frs, extension) IN IF i # 0 THEN frs[i] ELSE NilReader

\* a ReadFile call: the file name, the index of the reader it delegated to
\* (0 for none), what it returned, the types its error lists, its calls
ReadResult(filename, reader, err, doc, types, log) ==
    [filename |-> filename, reader |-> reader, err |-> err, doc |-> doc, types |-> types,
     log |-> log]

\* no ReadFile call yet
NoRead == ReadResult("", 0, "nil", EmptyDoc, <<>>, <<>>)

\* what ReadFile returns when reader i returned r
Delegated(filename, i, r) == ReadResult(filename, i, r.err, r.doc, <<>>, r.log)

\* frs.ReadFile(filename)
ReadFile(frs, F, filename, e) ==
    LET extension == Ext(filename)
        i == ReaderIndexFor(frs, extension)
    IN  IF i # 0
        THEN Delegated(filename, i, Read(frs[i], F, filename, e))
        ELSE LET supportedTypes == GetSupportedTypes(frs)
             IN  ReadResult(filename, 0, "unsupported file type", EmptyDoc, supportedTypes, <<>>)

-----------------------------------------------------------------------------
(* The commands (cmd/commands/process): flag checks, file validation, the  *)
(* read of the file and the dispatch through a registry built by           *)
(* processor.NewTextProcessorStrategy().                                   *)

\* BasicFileValidator.Validate
ValidateFile(F, filename, e) ==
    IF filename = "" THEN "filename cannot be empty"
    ELSE IF filename \notin DOMAIN F THEN "does not exist"
    ELSE IF e.read = "fail" THEN "is not readable"
    ELSE "nil"

\* what a command's RunE returns (cmdErr) and what its dispatch returned
CmdOutcome(cmdErr, o, doc, out) == [cmdErr |-> cmdErr, opts |-> o, doc |-> doc, out |-> out]
CmdEarly(cmdErr, F, D) ==
    CmdOutcome(cmdErr, ZeroOptions, EmptyDoc, Outcome(NilResult, NoError, F, D, <<>>))

\* validation, read and dispatch shared by replace, filter and transform;
\* failedMsg is the error the command wraps a dispatch error in
RunOnFile(operationType, o, failedMsg, e, F, D, t) ==
    LET processorStrategy == NewTextProcessorStrategy
        readerStrategy == NewFileReaderStrategy
    IN
    IF ValidateFile(F, o.FileName, e) # "nil" THEN CmdEarly("file validation failed", F, D)
    ELSE
    LET r == ReadFile(readerStrategy, F, o.FileName, e) IN
    IF r.err # "nil" THEN CmdEarly("failed to read file", F, D)
    ELSE
    LET out == ProcessText(processorStrategy, operationType, r.doc, o, e, F, D, t)
    IN  CmdOutcome(IF out.err.kind # "nil" THEN failedMsg ELSE "nil", o, r.doc, out)

\* replaceCmd.RunE
RunReplace(f, e, F, D, t) ==
    IF f.find = <<>> THEN CmdEarly("find pattern is required", F, D)
    ELSE IF f.replace = <<>> THEN CmdEarly("replacement text is required", F, D)
    ELSE IF f.file = "" THEN CmdEarly("file is required", F, D)
    ELSE RunOnFile("replace",
                   [ZeroOptions EXCEPT !.Pattern = f.find, !.ReplaceWith = f.replace,
                        !.RegexMode = f.regex, !.CaseSensitive = f.caseSensitive,
                        !.WholeWord = f.wholeWord, !.CreateBackup = f.backup,
                        !.BackupDir = f.backupDir, !.DryRun = f.dryRun,
                        !.FileName = f.file, !.OutputFile = f.output],
                   "replace operation failed", e, F, D, t)

\* filterCmd.RunE
RunFilter(f, e, F, D, t) ==
    IF f.contains # <<>> /\ f.pattern # <<>>
    THEN CmdEarly("cannot use both --pattern and --contains flags", F, D)
    ELSE
    LET searchPattern == IF f.contains # <<>> THEN f.contains ELSE f.pattern IN
    IF searchPattern = <<>> THEN CmdEarly("search criteria is required", F, D)
    ELSE IF f.input = "" THEN CmdEarly("input file is required", F, D)
    ELSE RunOnFile("filter",
                   [ZeroOptions EXCEPT !.Pattern = searchPattern,
                        !.RegexMode = f.regex \/ (f.pattern # <<>>),
                        !.CaseSensitive = f.caseSensitive, !.InvertMatch = f.invert,
                        !.OnlyMatching = f.onlyMatching,
                        !.FileName = f.input, !.OutputFile = f.output],
                   "filter operation failed", e, F, D, t)

\* transformCmd.RunE
RunTransform(f, e, F, D, t) ==
    IF f.type = "" THEN CmdEarly("transformation type is required", F, D)
    ELSE IF f.file = "" THEN CmdEarly("file is required", F, D)
    ELSE IF ~(\E i \in 1..Len(ValidTypes) : ToLowerName(f.type) = ValidTypes[i])
    THEN CmdEarly("invalid transformation type", F, D)
    ELSE RunOnFile("transform",
                   [ZeroOptions EXCEPT !.TransformType = ToLowerName(f.type),
                        !.FileName = f.file, !.OutputFile = f.output, !.DryRun = f.dryRun],
                   "transform operation failed", e, F, D, t)

\* filepath.Glob, for the file patterns of the model
Glob(F, files) == IF files \in DOMAIN F THEN <<files>> ELSE <<>>

\* searchCmd.RunE, for a file pattern that matches at most one file: a file
\* that fails validation, reading or the search is reported and skipped,
\* and the command returns nil
RunSearch(f, e, F, D, t) ==
    IF f.pattern = <<>> THEN CmdEarly("pattern is required", F, D)
    ELSE IF f.files = "" THEN CmdEarly("files pattern is required", F, D)
    ELSE
    LET matchingFiles == Glob(F, f.files) IN
    IF Len(matchingFiles) = 0 THEN CmdEarly("no files found matching pattern", F, D)
    ELSE
    LET processorStrategy == NewTextProcessorStrategy
        readerStrategy == NewFileReaderStrategy
        fileName == matchingFiles[1]
    IN
    IF ValidateFile(F, fileName, e) # "nil" THEN CmdEarly("nil", F, D)
    ELSE
    LET r == ReadFile(readerStrategy, F, fileName, e) IN
    IF r.err # "nil" THEN CmdEarly("nil", F, D)
    ELSE
    LET o == [ZeroOptions EXCEPT !.Pattern = f.pattern, !.RegexMode = f.regex,
                  !.CaseSensitive = f.caseSensitive, !.WholeWord = f.wholeWord,
                  !.ContextLines = f.context, !.FileName = fileName]
        out == ProcessText(processorStrategy, "search", r.doc, o, e, F, D, t)
    IN  CmdOutcome("nil", o, r.doc, out)

-----------------------------------------------------------------------------
(* The inputs the specifications draw.                                     *)

\* initial contents of the source file in the filesystem specification
InitContents == {<<"a", NL>>, <<" ", "a", NL, "b">>}

\* pattern, regex mode and replacement of the Replace invocations: an empty
\* pattern, an empty replacement, a literal that matches, an expression that
\* does not compile
ReplaceCores ==
    {[Pattern |-> <<>>, RegexMode |-> FALSE, ReplaceWith |-> <<"b">>],
     [Pattern |-> <<"a">>, RegexMode |-> FALSE, ReplaceWith |-> <<>>],
     [Pattern |-> <<"a">>, RegexMode |-> FALSE, ReplaceWith |-> <<"b">>],
     [Pattern |-> <<"(">>, RegexMode |-> TRUE, ReplaceWith |-> <<"b">>]}

\* where the backup goes: none taken, beside the source, in the directory
BackupChoices ==
    {[CreateBackup |-> FALSE, BackupDir |-> ""], [CreateBackup |-> TRUE, BackupDir |-> ""],
     [CreateBackup |-> TRUE, BackupDir |-> BDIR]}

ReplaceOptions ==
    {[ZeroOptions EXCEPT !.Pattern = c.Pattern, !.RegexMode = c.RegexMode,
          !.ReplaceWith = c.ReplaceWith, !.CreateBackup = b.CreateBackup,
          !.BackupDir = b.BackupDir, !.DryRun = dry, !.OutputFile = out, !.FileName = SRC] :
        c \in ReplaceCores, b \in BackupChoices, dry \in BOOLEAN, out \in {"", OUT}}

\* CreateBackup and BackupDir are set too, for the plain selection: Filter
\* takes the same ProcessOptions as Replace
FilterOptions ==
    {[ZeroOptions EXCEPT !.Pattern = p, !.InvertMatch = f[1], !.OnlyMatching = f[2],
          !.CreateBackup = f[3], !.BackupDir = IF f[3] THEN BDIR ELSE "",
          !.DryRun = dry, !.OutputFile = out, !.FileName = SRC] :
        p \in {<<>>, <<"a">>},
        f \in {g \in BOOLEAN \X BOOLEAN \X BOOLEAN : g[3] => ~g[1] /\ ~g[2]},
        dry \in BOOLEAN, out \in {"", OUT}}

TransformOptions ==
    {[ZeroOptions EXCEPT !.TransformType = ty, !.DryRun = dry, !.OutputFile = out,
          !.FileName = SRC] :
        ty \in {"", "upper", "Trim", "bogus"}, dry \in BOOLEAN, out \in {"", OUT}}

SearchOptions ==
    {[ZeroOptions EXCEPT !.Pattern = p, !.ContextLines = c, !.FileName = SRC] :
        p \in {<<>>, <<"a">>}, c \in {-1, 0, 1}}

\* the options of TestTextProcessorStrategy (valid for every operation, dry
\* run), and the same options live
DispatchOptions ==
    {[ZeroOptions EXCEPT !.Pattern = <<"a">>, !.ReplaceWith = <<"b">>,
          !.TransformType = "upper", !.FileName = SRC, !.DryRun = dry] : dry \in BOOLEAN}

OperationTypes == {"search", "replace", "filter", "transform"}

\* the environments that differ for an operation: a call that is not made,
\* or that follows a failed one, has no outcome to choose
ReplaceEnvs(o) ==
    {e \in Envs :
        /\ (~TakesBackup(o) => e.read = "ok" /\ e.mkdir = "ok" /\ e.bak = WriteOk)
        /\ (o.BackupDir = "" => e.mkdir = "ok")
        /\ (e.read = "fail" => e.mkdir = "ok" /\ e.bak = WriteOk)
        /\ (e.mkdir = "fail" => e.bak = WriteOk)
        /\ (e.read = "fail" \/ e.mkdir = "fail" \/ e.bak # WriteOk \/ o.DryRun => e.out = WriteOk)}

OutputEnvs(writes) ==
    {e \in Envs : e.read = "ok" /\ e.mkdir = "ok" /\ e.bak = WriteOk /\ (~writes => e.out = WriteOk)}

CommandEnvs == {e \in Envs : e.mkdir = "ok" /\ e.bak = WriteOk /\ e.out = WriteOk}

ReplaceFlags ==
    [find : {<<>>, <<"a">>}, replace : {<<>>, <<"b">>}, file : {SRC}, regex : {FALSE},
     caseSensitive : {TRUE}, wholeWord : {FALSE}, backup : {TRUE}, backupDir : {""},
     dryRun : BOOLEAN, output : {""}]

FilterFlags ==
    [pattern : {<<>>, <<"a">>}, contains : {<<>>, <<"a">>}, input : {SRC}, output : {"", OUT},
     regex : {FALSE}, caseSensitive : {FALSE}, invert : {FALSE}, onlyMatching : {FALSE}]

TransformFlags == [type : {"", "UPPER", "bogus"}, file : {SRC}, output : {""}, dryRun : BOOLEAN]

SearchFlags ==
    [pattern : {<<>>, <<"a">>}, files : {SRC, "*.none"}, regex : {FALSE},
     caseSensitive : {FALSE}, wholeWord : {FALSE}, context : {0}]

-----------------------------------------------------------------------------
(* The state machine.                                                      *)

\* the first invocation of a behaviour that keeps track of it (tracked):
\* its inputs, what it returned, and the number of invocations after it that
\* had another operation, Document or Options (between)
NoFirst ==
    [tracked |-> FALSE, set |-> FALSE, op |-> "none", opts |-> ZeroOptions, doc |-> EmptyDoc,
     res |-> NilResult, err |-> NoError, between |-> 0]

\* no invocation yet.  afterDryRun: the invocation before this one was a
\* successful dry run of the same operation with the same other options;
\* found: the SearchResult list a Search built before it returned;
\* content: the Document the invocation was given, as the invocation left it
NoCall ==
    [op |-> "none", via |-> "none", tps |-> NewTextProcessorStrategy, opts |-> ZeroOptions,
     doc |-> EmptyDoc, res |-> NilResult, err |-> NoError, log |-> <<>>, cmdErr |-> "nil",
     afterDryRun |-> FALSE, found |-> <<>>, content |-> EmptyDoc, first |-> NoFirst]

Init ==
    /\ fs \in {(SRC :> c) : c \in InitContents}
    /\ dirs = {}
    /\ now = 0
    /\ registry = NewDefaultTextProcessorStrategy
    /\ ops = 0
    /\ last = NoCall
    /\ originals = <<>>
    /\ readers = NewFileReaderStrategy
    /\ loaded = NoRead

\* the Document the caller loads from the source file before an operation
Load(o) == TextFileReaderRead(fs[o.FileName])

\* a successful live Replace with backup: the bytes the source held before
\* it, the backup path it returned and the clock it started at
Saved(op, o, out) ==
    IF op = "replace" /\ TakesBackup(o) /\ out.err.kind = "nil"
    THEN <<[bytes |-> fs[o.FileName], backupPath |-> out.res.BackupPath, at |-> now]>>
    ELSE <<>>

\* this invocation repeats, live, the successful dry run just before it
AfterDryRun(op, via, o, doc) ==
    /\ last.op = op /\ last.via = via /\ last.doc = doc
    /\ last.opts.DryRun /\ ~o.DryRun /\ last.err.kind = "nil"
    /\ last.opts = [o EXCEPT !.DryRun = TRUE]

\* the first invocation, once this one returned out
FirstAfter(op, o, doc, out) ==
    IF ~last.first.tracked THEN last.first
    ELSE IF ~last.first.set
    THEN [tracked |-> TRUE, set |-> TRUE, op |-> op, opts |-> o, doc |-> doc,
          res |-> out.res, err |-> out.err, between |-> 0]
    ELSE IF <<op, o, doc>> # <<last.first.op, last.first.opts, last.first.doc>>
    THEN [last.first EXCEPT !.between = @ + 1]
    ELSE last.first

\* the state after an invocation returned out
Returned(op, via, tps, o, doc, out, cmdErr) ==
    /\ fs' = out.fs
    /\ dirs' = out.dirs
    /\ last' = [op |-> op, via |-> via, tps |-> tps, opts |-> o, doc |-> doc,
                res |-> out.res, err |-> out.err, log |-> out.log, cmdErr |-> cmdErr,
                afterDryRun |-> AfterDryRun(op, via, o, doc),
                found |-> IF "results" \in DOMAIN out THEN out.results ELSE <<>>,
                content |-> IF "content" \in DOMAIN out THEN out.content ELSE doc,
                first |-> FirstAfter(op, o, doc, out)]
    /\ originals' = originals \o Saved(op, o, out)
    /\ UNCHANGED <<now, registry, readers, loaded>>

\* a strategy's Process called on the loaded Document
Invoke(processor, o, e) ==
    LET doc == Load(o) IN
    /\ EnvPossible(processor, doc, o, e, fs)
    /\ Returned(GetOperationType(processor), "strategy", NewTextProcessorStrategy, o, doc,
                Process(processor, doc, o, e, fs, dirs, now), "nil")

Counted == ops < MaxOps /\ ops' = ops + 1

Tick ==
    /\ now < MaxTick /\ now' = now + 1
    /\ UNCHANGED <<fs, dirs, registry, ops, last, originals, readers, loaded>>

Replace ==
    /\ Counted
    /\ \E o \in ReplaceOptions : \E e \in ReplaceEnvs(o) : Invoke("ReplaceProcessorStrategy", o, e)

Filter ==
    /\ Counted
    /\ \E o \in FilterOptions : \E e \in OutputEnvs(FilterWrites(o)) :
            Invoke("FilterProcessorStrategy", o, e)

Transform ==
    /\ Counted
    /\ \E o \in TransformOptions : \E e \in OutputEnvs(~o.DryRun) :
            Invoke("TransformProcessorStrategy", o, e)

Search ==
    /\ Counted
    /\ \E o \in SearchOptions : Invoke("SearchProcessorStrategy", o, NoFaults)

\* strategy.AddProcessor(processor) on the registry in use
Register ==
    /\ Counted
    /\ \E processor \in Processors : registry' = AddProcessor(registry, processor)
    /\ UNCHANGED <<fs, dirs, now, last, originals, readers, loaded>>

\* strategy.ProcessText(operationType, content, options) on the registry in use
Dispatch ==
    /\ Counted
    /\ \E operationType \in OperationTypes \cup {"invalid"}, o \in DispatchOptions :
        LET doc == Load(o) IN
        Returned(operationType, "registry", registry, o, doc,
                 ProcessText(registry, operationType, doc, o, NoFaults, fs, dirs, now), "nil")

Command(op, c) == Returned(op, "command", NewTextProcessorStrategy, c.opts, c.doc, c.out, c.cmdErr)

ReplaceCommand ==
    /\ Counted
    /\ \E f \in ReplaceFlags, e \in CommandEnvs : Command("replace", RunReplace(f, e, fs, dirs, now))

FilterCommand ==
    /\ Counted
    /\ \E f \in FilterFlags, e \in CommandEnvs : Command("filter", RunFilter(f, e, fs, dirs, now))

TransformCommand ==
    /\ Counted
    /\ \E f \in TransformFlags, e \in CommandEnvs :
            Command("transform", RunTransform(f, e, fs, dirs, now))

SearchCommand ==
    /\ Counted
    /\ \E f \in SearchFlags, e \in CommandEnvs : Command("search", RunSearch(f, e, fs, dirs, now))

\* the strategies invoked on the source file, and the clock
Next ==
    \/ Tick
    \/ Replace
    \/ Filter
    \/ Transform
    \/ Search

Spec == Init /\ [][Next]_vars

\* the registry and the commands that dispatch through one
DispatchNext ==
    \/ Register
    \/ Dispatch
    \/ ReplaceCommand
    \/ FilterCommand
    \/ TransformCommand
    \/ SearchCommand

SpecDispatch == Init /\ [][DispatchNext]_vars

-----------------------------------------------------------------------------
(* Successive live Replace operations with backup, none of them failing.   *)

BackupOptions ==
    {[ZeroOptions EXCEPT !.Pattern = c[1], !.ReplaceWith = c[2], !.CaseSensitive = TRUE,
          !.CreateBackup = TRUE, !.BackupDir = bdir, !.OutputFile = out, !.FileName = SRC] :
        c \in {<<(<<"a">>), (<<"b">>)>>, <<(<<"b">>), (<<"a">>)>>},
        bdir \in {"", BDIR}, out \in {"", OUT}}

BackupReplace ==
    /\ Counted
    /\ \E o \in BackupOptions : Invoke("ReplaceProcessorStrategy", o, NoFaults)

BackupNext ==
    \/ Tick
    \/ BackupReplace

SpecBackup == Init /\ [][BackupNext]_vars

-----------------------------------------------------------------------------
(* The text engine on every short document: one dry-run invocation on a   *)
(* source file whose content is drawn by the initial state.                *)

ContentAlphabet == {"a", "A", ".", NL}
PatternAlphabet == {"a", "A", ".", "(", NL}
Replacements == {<<>>, <<"b">>, <<"a", "a">>, <<"$", "0", ".">>, <<"$", "a">>}

TextInit ==
    /\ fs \in {(SRC :> c) : c \in TextsUpTo(ContentAlphabet, MaxLen)}
    /\ dirs = {}
    /\ now = 0
    /\ registry = NewDefaultTextProcessorStrategy
    /\ ops = 0
    /\ last = NoCall
    /\ originals = <<>>
    /\ readers = NewFileReaderStrategy
    /\ loaded = NoRead

TextReplaceOptions ==
    {[ZeroOptions EXCEPT !.Pattern = p, !.ReplaceWith = r, !.RegexMode = m[1],
          !.CaseSensitive = m[2], !.WholeWord = m[3], !.DryRun = TRUE, !.FileName = SRC] :
        p \in TextsUpTo(PatternAlphabet, MaxPatLen), r \in Replacements,
        m \in BOOLEAN \X BOOLEAN \X BOOLEAN}

TextReplace ==
    /\ last.op = "none"
    /\ UNCHANGED ops
    /\ \E o \in TextReplaceOptions : Invoke("ReplaceProcessorStrategy", o, NoFaults)

TextNext == TextReplace

SpecText == TextInit /\ [][TextNext]_vars

-----------------------------------------------------------------------------
(* Line matching on every short document: one Search or one Filter that    *)
(* writes nothing, on a source file whose lines the initial state draws.   *)

LineChoices == {<<>>, <<"a">>, <<"A">>, <<"(">>, <<"a", "a">>, <<"a", ".">>}
LinePatterns ==
    {<<>>, <<"a">>, <<"A">>, <<".">>, <<"(">>, <<"a", "a">>, <<"a", NL>>, <<BS, "b">>}

\* the bytes of a file made of the lines ls, each ended by a line break
FileOfLines(ls) == Concat([i \in 1..Len(ls) |-> ls[i] \o <<NL>>])

LineInit ==
    /\ fs \in {(SRC :> FileOfLines(ls)) : ls \in TextsUpTo(LineChoices, MaxLines)}
    /\ dirs = {}
    /\ now = 0
    /\ registry = NewDefaultTextProcessorStrategy
    /\ ops = 0
    /\ last = NoCall
    /\ originals = <<>>
    /\ readers = NewFileReaderStrategy
    /\ loaded = NoRead

LineSearchOptions ==
    {[ZeroOptions EXCEPT !.Pattern = p, !.RegexMode = m[1], !.CaseSensitive = m[2],
          !.WholeWord = m[3], !.ContextLines = c, !.FileName = SRC] :
        p \in LinePatterns, m \in BOOLEAN \X BOOLEAN \X BOOLEAN, c \in {-1, 0, 1, 2}}

LineFilterOptions ==
    {[ZeroOptions EXCEPT !.Pattern = p, !.RegexMode = m[1], !.CaseSensitive = m[2],
          !.WholeWord = m[3], !.InvertMatch = f[1], !.OnlyMatching = f[2],
          !.DryRun = TRUE, !.FileName = SRC] :
        p \in LinePatterns, m \in BOOLEAN \X BOOLEAN \X BOOLEAN, f \in BOOLEAN \X BOOLEAN}

LineSearch ==
    /\ last.op = "none"
    /\ UNCHANGED ops
    /\ \E o \in LineSearchOptions : Invoke("SearchProcessorStrategy", o, NoFaults)

LineFilter ==
    /\ last.op = "none"
    /\ UNCHANGED ops
    /\ \E o \in LineFilterOptions : Invoke("FilterProcessorStrategy", o, NoFaults)

LineNext ==
    \/ LineSearch
    \/ LineFilter

SpecLines == LineInit /\ [][LineNext]_vars

-----------------------------------------------------------------------------
(* Transform on every short document: successive Transform invocations of  *)
(* every kind on a source file whose content the initial state draws, each *)
(* loading the Document from what the file holds by then.                  *)

TransformAlphabet == {"a", "B", " ", NL}

\* the four kinds, two of them in other letter case too, no kind, and an
\* unrecognized one
TransformTypes == {"", "upper", "lower", "title", "trim", "UPPER", "Trim", "bogus"}

TransformInit ==
    /\ fs \in {(SRC :> c) : c \in TextsUpTo(TransformAlphabet, MaxLen)}
    /\ dirs = {}
    /\ now = 0
    /\ registry = NewDefaultTextProcessorStrategy
    /\ ops = 0
    /\ last = NoCall
    /\ originals = <<>>
    /\ readers = NewFileReaderStrategy
    /\ loaded = NoRead

KindOptions ==
    {[ZeroOptions EXCEPT !.TransformType = ty, !.DryRun = dry, !.OutputFile = out,
          !.FileName = SRC] :
        ty \in TransformTypes, dry \in BOOLEAN, out \in {"", OUT}}

KindTransform ==
    /\ Counted
    /\ \E o \in KindOptions : \E e \in OutputEnvs(~o.DryRun) :
            Invoke("TransformProcessorStrategy", o, e)

TransformNext == KindTransform

SpecTransform == TransformInit /\ [][TransformNext]_vars

-----------------------------------------------------------------------------
(* Patterns that do not compile: Search, Replace and Filter on patterns of *)
(* which some are no regular expression, in regex mode and as literals.    *)

\* a literal, an unclosed group, an unopened group, a group opened after a
\* literal, a trailing backslash
PatternChoices == {<<"a">>, <<"(">>, <<")">>, <<"a", "(">>, <<BS>>}

PatternSearchOptions ==
    {[ZeroOptions EXCEPT !.Pattern = p, !.RegexMode = m, !.FileName = SRC] :
        p \in PatternChoices, m \in BOOLEAN}

\* every pattern as a regular expression; as literals one that matches and
\* one that matches nothing
PatternReplaceOptions ==
    {[ZeroOptions EXCEPT !.Pattern = c[1], !.RegexMode = c[2], !.ReplaceWith = <<"b">>,
          !.CreateBackup = b.CreateBackup, !.BackupDir = b.BackupDir, !.DryRun = dry,
          !.OutputFile = out, !.FileName = SRC] :
        c \in (PatternChoices \X {TRUE}) \cup ({<<"a">>, <<"(">>} \X {FALSE}),
        b \in BackupChoices, dry \in BOOLEAN, out \in {"", OUT}}

PatternFilterOptions ==
    {[ZeroOptions EXCEPT !.Pattern = p, !.RegexMode = m, !.DryRun = dry, !.OutputFile = out,
          !.FileName = SRC] :
        p \in PatternChoices, m \in BOOLEAN, dry \in BOOLEAN, out \in {"", OUT}}

PatternSearch ==
    /\ Counted
    /\ \E o \in PatternSearchOptions : Invoke("SearchProcessorStrategy", o, NoFaults)

\* a pattern that does not compile ends the Replace before any filesystem
\* call: there is no outcome to choose
PatternReplace ==
    /\ Counted
    /\ \E o \in PatternReplaceOptions :
          \E e \in (IF ReplaceCompile(o).ok THEN ReplaceEnvs(o) ELSE {NoFaults}) :
            Invoke("ReplaceProcessorStrategy", o, e)

PatternFilter ==
    /\ Counted
    /\ \E o \in PatternFilterOptions : \E e \in OutputEnvs(FilterWrites(o)) :
            Invoke("FilterProcessorStrategy", o, e)

PatternNext ==
    \/ PatternSearch
    \/ PatternReplace
    \/ PatternFilter

SpecPattern == Init /\ [][PatternNext]_vars

-----------------------------------------------------------------------------

(* The readers on every short file: one ReadFile call on a text, a CSV or  *)
(* a JSON file whose bytes the initial state draws.                        *)

ReaderAlphabet == {"1", ",", QUOTE, NL, "[", "]"}

ReadPaths == {"n.txt", "n.csv", "n.json"}

ReadInit ==
    /\ fs \in {(p :> c) : p \in ReadPaths, c \in TextsUpTo(ReaderAlphabet, MaxLen)}
    /\ dirs = {}
    /\ now = 0
    /\ registry = NewDefaultTextProcessorStrategy
    /\ ops = 0
    /\ last = NoCall
    /\ originals = <<>>
    /\ readers = NewFileReaderStrategy
    /\ loaded = NoRead

\* os.Open succeeds or fails
OpenEnvs == {e \in Envs : e.mkdir = "ok" /\ e.bak = WriteOk /\ e.out = WriteOk}

ReadOnce ==
    /\ loaded = NoRead
    /\ \E filename \in DOMAIN fs, e \in OpenEnvs : loaded' = ReadFile(readers, fs, filename, e)
    /\ UNCHANGED <<fs, dirs, now, registry, ops, last, originals, readers>>

ReadNext == ReadOnce

SpecRead == ReadInit /\ [][ReadNext]_vars

-----------------------------------------------------------------------------
(* The reader registry: readers added to the FileReaderStrategy and files  *)
(* of every extension read through it.                                     *)

ReaderPaths ==
    {"n.txt", "N.TXT", "n.text", "n.log", "n.csv", "n.Csv", "n.tsv", "n.json", "n.jsonl",
     "n.ndjson", "n.mock", "n.xyz", "README"}

\* the readers the factory adds, the MockReader of TestAddReader and a
\* MockReader for an extension the text reader has
ReaderChoices ==
    {TextFileReader("strategies"), CSVFileReader("strategies"), JSONFileReader("strategies"),
     MockReader(<<".mock", ".test">>), MockReader(<<".txt", ".xyz">>)}

\* every file holds bytes that are text, one CSV record and a JSON value
ReadersInit ==
    /\ fs = [p \in ReaderPaths |-> <<"1", NL>>]
    /\ dirs = {}
    /\ now = 0
    /\ registry = NewDefaultTextProcessorStrategy
    /\ ops = 0
    /\ last = NoCall
    /\ originals = <<>>
    /\ readers = NewFileReaderStrategy
    /\ loaded = NoRead

\* strategy.AddReader(reader); ops counts these calls
AddReaderCall ==
    /\ Counted
    /\ \E reader \in ReaderChoices : readers' = AddReader(readers, reader)
    /\ UNCHANGED <<fs, dirs, now, registry, last, originals, loaded>>

\* strategy.ReadFile(filename), on a file that exists or on one that is gone
ReadFileCall ==
    /\ \E filename \in ReaderPaths \cup {"gone.txt"}, e \in OpenEnvs :
            loaded' = ReadFile(readers, fs, filename, e)
    /\ UNCHANGED <<fs, dirs, now, registry, ops, last, originals, readers>>

ReadersNext ==
    \/ AddReaderCall
    \/ ReadFileCall

SpecReaders == ReadersInit /\ [][ReadersNext]_vars

-----------------------------------------------------------------------------
(* Repeated invocations: the four operations invoked one after another on *)
(* the source file, the first invocation of the behaviour kept to compare  *)
(* the later ones with.                                                    *)

RepeatSearchOptions ==
    {[ZeroOptions EXCEPT !.Pattern = p, !.FileName = SRC] : p \in {<<"a">>, <<"b">>}}

RepeatReplaceOptions ==
    {[ZeroOptions EXCEPT !.Pattern = <<"a">>, !.ReplaceWith = r, !.DryRun = TRUE,
          !.FileName = SRC] : r \in {<<"b">>, <<"a", "a">>}}

RepeatFilterOptions ==
    {[ZeroOptions EXCEPT !.Pattern = <<"a">>, !.InvertMatch = inv, !.OutputFile = out,
          !.FileName = SRC] : inv \in BOOLEAN, out \in {"", OUT}}

RepeatTransformOptions ==
    {[ZeroOptions EXCEPT !.TransformType = ty, !.DryRun = dry, !.OutputFile = out,
          !.FileName = SRC] :
        ty \in {"upper", "trim"}, dry \in BOOLEAN, out \in {OUT}}

RepeatInit ==
    /\ fs \in {(SRC :> c) : c \in InitContents}
    /\ dirs = {}
    /\ now = 0
    /\ registry = NewDefaultTextProcessorStrategy
    /\ ops = 0
    /\ last = [NoCall EXCEPT !.first.tracked = TRUE]
    /\ originals = <<>>
    /\ readers = NewFileReaderStrategy
    /\ loaded = NoRead

\* one invocation more than MaxOps, for an invocation between two equal ones
RepeatCounted == ops < MaxOps + 1 /\ ops' = ops + 1

RepeatSearch ==
    /\ RepeatCounted
    /\ \E o \in RepeatSearchOptions : Invoke("SearchProcessorStrategy", o, NoFaults)

RepeatReplace ==
    /\ RepeatCounted
    /\ \E o \in RepeatReplaceOptions : Invoke("ReplaceProcessorStrategy", o, NoFaults)

RepeatFilter ==
    /\ RepeatCounted
    /\ \E o \in RepeatFilterOptions : \E e \in OutputEnvs(FilterWrites(o)) :
            Invoke("FilterProcessorStrategy", o, e)

RepeatTransform ==
    /\ RepeatCounted
    /\ \E o \in RepeatTransformOptions : \E e \in OutputEnvs(~o.DryRun) :
            Invoke("TransformProcessorStrategy", o, e)

RepeatNext ==
    \/ Tick
    \/ RepeatSearch
    \/ RepeatReplace
    \/ RepeatFilter
    \/ RepeatTransform

SpecRepeat == RepeatInit /\ [][RepeatNext]_vars

-----------------------------------------------------------------------------
(* Properties.                                                             *)

\* an invocation returned in this step
Invoked == ops' = ops + 1

\* the filesystem calls of the last operation that wrote, and those that failed
Writes(log) == {i \in DOMAIN log : log[i].call \in {"WriteBackup", "WriteOutput"}}
FailedWrites(log) == {i \in Writes(log) : log[i].outcome # "ok"}

\* the files that are neither the source nor the output: the backups
BackupFiles == DOMAIN fs \ {SRC, OUT}

\* C1: the registry the factory builds supports exactly search, replace,
\* filter and transform: four operations, each of them processed without
\* error on valid dry-run options, every other operation type an error
C1_FactoryRegistersFourOperations ==
    (last.via = "registry" /\ last.tps = NewDefaultTextProcessorStrategy /\ last.opts.DryRun) =>
        /\ GetSupportedOperations(last.tps) = OperationTypes
        /\ Cardinality(GetSupportedOperations(last.tps)) = 4
        /\ (last.op \in OperationTypes => last.err.kind = "nil" /\ ~last.res.isNil)
        /\ (last.op \notin OperationTypes => last.err.kind # "nil")

\* C2: a command that reaches its dispatch finds a processor registered for
\* its operation: the dispatch never fails with the unsupported-operation
\* error, and on the valid flags of the model it receives a Result
C2_CommandDispatchReachesProcessor ==
    (last.via = "command" /\ last.opts.FileName # "") =>
        /\ last.err.kind # "unsupported operation type"
        /\ ~last.res.isNil
        /\ last.cmdErr = "nil"

\* C3: in a live Replace with createBackup the backup is written, and has
\* succeeded, before the output write is attempted; when the output write
\* then fails the backup holds the bytes of the source and the source is
\* unmodified
C3_BackupBeforeOutputWrite ==
    [][(Invoked /\ last'.op = "replace" /\ last'.opts.CreateBackup /\ ~last'.opts.DryRun) =>
        LET log == last'.log
            W == {j \in DOMAIN log : log[j].call = "WriteOutput"}
            B == {i \in DOMAIN log : log[i].call = "WriteBackup" /\ log[i].outcome = "ok"}
        IN  \A j \in W :
                /\ \E i \in B : i < j
                /\ log[j].outcome # "ok" =>
                    /\ \E i \in B : log[i].path \in DOMAIN fs' /\ fs'[log[i].path] = fs[SRC]
                    /\ fs'[SRC] = fs[SRC]]_vars

\* C4: over successful live Replace operations with createBackup, the bytes
\* the source held before each operation stay in some backup file, and two
\* operations started in the same clock second return different backup paths
C4_OriginalDataNeverLost ==
    /\ \A i \in DOMAIN originals : \E p \in BackupFiles : fs[p] = originals[i].bytes
    /\ \A i, j \in DOMAIN originals :
          (i < j /\ originals[i].at \div TicksPerSecond = originals[j].at \div TicksPerSecond)
              => originals[i].backupPath # originals[j].backupPath

\* C5: a dry run of Replace, Filter or Transform makes no filesystem call,
\* leaves files and directories as they were and reports no backup path; it
\* fails only on its options or its pattern, and otherwise returns a Result
C5_DryRunWritesNothing ==
    [][(Invoked /\ last'.op \in {"replace", "filter", "transform"} /\ last'.opts.DryRun) =>
        /\ fs' = fs /\ dirs' = dirs
        /\ last'.log = <<>>
        /\ last'.res.BackupPath = ""
        /\ last'.err.kind \in {"nil", "invalid replace options", "invalid filter options",
                               "invalid transform options", "invalid regex pattern"}
        /\ (last'.err.kind = "nil" => ~last'.res.isNil /\ last'.res.Success)]_vars

C5_Witness ==
    /\ last.op = "replace" /\ last.opts.DryRun /\ last.opts.CreateBackup
    /\ last.opts.OutputFile = OUT
    /\ ~last.res.isNil /\ last.res.MatchesFound > 0
    /\ last.res.ModifiedContent # last.doc.Content
    /\ DOMAIN fs = {SRC}

\* C6: an operation whose backup write or output write failed returns an
\* error and no Result
C6_FailedWriteReturnsError ==
    (last.op \in {"replace", "filter", "transform"} /\ FailedWrites(last.log) # {}) =>
        /\ last.err.kind # "nil"
        /\ last.res.isNil
        /\ ~last.res.Success

C6_Witness ==
    /\ last.op = "filter"
    /\ \E i \in FailedWrites(last.log) : last.log[i].call = "WriteOutput"
    /\ last.err.kind = "failed to write filtered content"

\* the options the validation of an operation rejects
InvalidOptions(op, o) ==
    \/ op \in {"search", "replace", "filter"} /\ o.Pattern = <<>>
    \/ op = "search" /\ o.ContextLines < 0
    \/ op = "replace" /\ o.ReplaceWith = <<>>
    \/ op = "transform" /\ ToLowerName(o.TransformType) \notin {"upper", "lower", "title", "trim"}

\* C7: an operation on invalid options (empty pattern for Search, Replace or
\* Filter, negative contextLines, no replacement, empty or unrecognized
\* transformKind) returns the validation error of the operation and no
\* Result, makes no filesystem call and leaves the files as they were
C7_ValidationBeforeWork ==
    [][(Invoked /\ last'.via = "strategy" /\ InvalidOptions(last'.op, last'.opts)) =>
        /\ last'.err.kind = "invalid " \o last'.op \o " options"
        /\ last'.res.isNil /\ ~last'.res.Success
        /\ last'.log = <<>>
        /\ fs' = fs /\ dirs' = dirs]_vars

C7_Witness ==
    /\ last.op = "replace" /\ last.opts.Pattern = <<>> /\ last.opts.ReplaceWith # <<>>
    /\ TakesBackup(last.opts)
    /\ last.err.kind = "invalid replace options" /\ last.res.isNil

\* C8, as stated: Replace with a non-empty pattern that compiles and an empty
\* replacement succeeds and returns the content with every match deleted
C8_EmptyReplacementDeletesMatches ==
    (last.op = "replace" /\ last.via = "strategy" /\ last.opts.Pattern # <<>>
        /\ ReplaceCompile(last.opts).ok /\ last.opts.ReplaceWith = <<>>) =>
        /\ last.err.kind \in {"nil", "failed to create backup", "failed to write modified content"}
        /\ last.err.kind = "nil" =>
              /\ ~last.res.isNil /\ last.res.Success
              /\ Len(last.res.ModifiedContent) =
                     Len(last.doc.Content) - last.res.MatchesFound * Len(last.opts.Pattern)

\* C8, amended: Replace with a non-empty pattern and an empty replacement
\* returns the validation error and no Result and makes no filesystem call;
\* a non-empty replacement with a non-empty pattern passes the validation
C8_EmptyReplacementRejected ==
    (last.op = "replace" /\ last.via = "strategy" /\ last.opts.Pattern # <<>>) =>
        /\ last.opts.ReplaceWith = <<>> =>
              last.err.kind = "invalid replace options" /\ last.res.isNil /\ last.log = <<>>
        /\ last.opts.ReplaceWith # <<>> => last.err.kind # "invalid replace options"

C8_Witness ==
    /\ last.op = "replace" /\ last.opts.Pattern = <<"a">> /\ last.opts.ReplaceWith = <<>>
    /\ ~last.opts.DryRun
    /\ last.err.kind = "invalid replace options" /\ last.res.isNil

\* the positions of t where a match of re starts
MatchStarts(re, t) == {p \in 1..Len(t) : MatchEnd(re, t, p) > p}

\* the leftmost non-overlapping matches: no two of them overlap, and every
\* other match starts inside one of them that starts before it
LeftmostMatches(re, t) ==
    CHOOSE S \in SUBSET MatchStarts(re, t) :
        /\ \A p, q \in S : p < q => MatchEnd(re, t, p) <= q
        /\ \A q \in MatchStarts(re, t) \ S : \E p \in S : p < q /\ q < MatchEnd(re, t, p)

\* t with each of the matches S replaced by the expansion of repl
Spliced(re, t, repl, S) ==
    Concat([p \in 1..Len(t) |->
               IF p \in S THEN Expand(repl, SubSeq(t, p, MatchEnd(re, t, p) - 1))
               ELSE IF \E q \in S : q < p /\ p < MatchEnd(re, t, q) THEN <<>>
               ELSE <<t[p]>>])

\* C9: a successful Replace substitutes over the whole content, line breaks
\* included: matchesFound is the number of leftmost non-overlapping matches
\* in the original content, and modifiedContent is the original content with
\* exactly those matches replaced, the replaced text never scanned again
C9_ReplaceCountsOriginalMatches ==
    (last.op = "replace" /\ last.err.kind = "nil") =>
        LET re == ReplaceCompile(last.opts)
            t == last.doc.Content
            S == LeftmostMatches(re, t)
        IN  /\ last.res.MatchesFound = Cardinality(S)
            /\ last.res.ModifiedContent = Spliced(re, t, last.opts.ReplaceWith, S)

C9_Witness ==
    /\ last.op = "replace" /\ last.err.kind = "nil"
    /\ last.opts.Pattern = <<"a">> /\ last.opts.ReplaceWith = <<"a", "a">>
    /\ Len(last.doc.Lines) = 2
    /\ last.res.MatchesFound = 2
    /\ Len(FindAllIndex(ReplaceCompile(last.opts), last.res.ModifiedContent)) = 4

\* C10: a successful live Replace that follows a successful dry run of
\* Replace with the same options on the same Document returns the
\* modifiedContent and the matchesFound the dry run returned
C10_DryRunEqualsLive ==
    [][(/\ Invoked
        /\ last.op = "replace" /\ last'.op = "replace"
        /\ last.via = last'.via
        /\ last.opts.DryRun /\ last'.opts = [last.opts EXCEPT !.DryRun = FALSE]
        /\ last.doc = last'.doc
        /\ last.err.kind = "nil" /\ last'.err.kind = "nil") =>
            /\ last'.res.ModifiedContent = last.res.ModifiedContent
            /\ last'.res.MatchesFound = last.res.MatchesFound]_vars

C10_Witness ==
    /\ last.op = "replace" /\ last.afterDryRun /\ ~last.opts.DryRun
    /\ last.err.kind = "nil" /\ last.res.MatchesFound > 0
    /\ fs[SRC] = last.res.ModifiedContent
    /\ fs[SRC] # last.doc.Content

\* the file a live Replace or Transform is to write
OutputTarget(o) == IF o.OutputFile = "" THEN o.FileName ELSE o.OutputFile

\* C11: a successful live Replace or Transform makes exactly one output
\* write, to the source when outputPath is empty and to outputPath
\* otherwise; the target then holds modifiedContent, the source is unchanged
\* when the target is another file, and no other file but the backup the
\* operation returned is created or changed
C11_OneOutputTargetWritten ==
    [][(Invoked /\ last'.op \in {"replace", "transform"} /\ last'.via = "strategy"
            /\ ~last'.opts.DryRun /\ last'.err.kind = "nil") =>
        LET o == last'.opts
            target == OutputTarget(o)
            log == last'.log
            W == {j \in DOMAIN log : log[j].call = "WriteOutput"}
        IN  /\ Cardinality(W) = 1
            /\ \A j \in W : log[j].path = target /\ log[j].outcome = "ok"
            /\ target \in DOMAIN fs' /\ fs'[target] = last'.res.ModifiedContent
            /\ (o.OutputFile # "" /\ o.OutputFile # o.FileName) => fs'[o.FileName] = fs[o.FileName]
            /\ DOMAIN fs \subseteq DOMAIN fs'
            /\ \A p \in DOMAIN fs' \ {target} :
                  \/ p \in DOMAIN fs /\ fs'[p] = fs[p]
                  \/ p = last'.res.BackupPath /\ fs'[p] = fs[o.FileName]]_vars

C11_Witness ==
    /\ last.op = "transform" /\ ~last.opts.DryRun /\ last.err.kind = "nil"
    /\ last.opts.OutputFile = OUT
    /\ OUT \in DOMAIN fs /\ fs[OUT] = last.res.ModifiedContent
    /\ fs[SRC] # fs[OUT]

\* the first invocation of a behaviour returned in this step
FirstInvoked(op) == last.op = "none" /\ last'.op = op

\* the positions of a line, its end included, where a match of re, empty or
\* not, starts
LineMatchStarts(re, line) == {q \in 1..(Len(line) + 1) : MatchEnd(re, line, q) > 0}

\* the 1-based indices of the lines of doc in which a match of re starts
MatchingLines(re, doc) == {i \in 1..Len(doc.Lines) : LineMatchStarts(re, doc.Lines[i]) # {}}

\* C12: a successful Search reports as matchesFound the number of lines in
\* which the compiled pattern matches, a line with several matches counted
\* once, and as linesProcessed the number of lines; its modifiedContent is
\* empty, it makes no filesystem call and leaves every file as it was
C12_SearchCountsLines ==
    [][(FirstInvoked("search") /\ last'.err.kind = "nil") =>
        /\ ~last'.res.isNil
        /\ last'.res.MatchesFound =
              Cardinality(MatchingLines(SearchCompile(last'.opts), last'.doc))
        /\ last'.res.LinesProcessed = Len(last'.doc.Lines)
        /\ last'.res.ModifiedContent = <<>>
        /\ last'.log = <<>>
        /\ fs' = fs /\ dirs' = dirs]_vars

C12_Witness ==
    /\ last.op = "search" /\ last.err.kind = "nil"
    /\ Len(last.doc.Lines) = 3
    /\ last.res.MatchesFound = 2
    /\ \E i \in 1..3 :
          Cardinality(LineMatchStarts(SearchCompile(last.opts), last.doc.Lines[i])) = 2

\* the slice lines[max(0, i-c) : min(n, i+c+1)] around 0-based index i
ContextSlice(lines, i, c) ==
    LET start == IF i - c > 0 THEN i - c ELSE 0
        end == IF i + c + 1 < Len(lines) THEN i + c + 1 ELSE Len(lines)
    IN  [k \in 1..(end - start) |-> lines[start + k]]

\* the SearchResult list records the matching lines, in document order
RecordsMatchingLines(found, re, doc) ==
    /\ Len(found) = Cardinality(MatchingLines(re, doc))
    /\ \A k \in DOMAIN found :
          /\ found[k].LineNumber \in MatchingLines(re, doc)
          /\ found[k].Line = doc.Lines[found[k].LineNumber]
    /\ \A k, l \in DOMAIN found : k < l => found[k].LineNumber < found[l].LineNumber

\* C13, as stated: for contextLines >= 0 every SearchResult of a matching
\* line at 0-based index i has lineNumber i+1 and as context the slice
\* [max(0, i-contextLines), min(n, i+contextLines+1)) of the lines, which
\* holds the matching line
C13_ContextAlwaysHasMatchLine ==
    (last.op = "search" /\ last.err.kind = "nil") =>
        /\ RecordsMatchingLines(last.found, SearchCompile(last.opts), last.doc)
        /\ \A k \in DOMAIN last.found :
              LET r == last.found[k] IN
              /\ r.Context = ContextSlice(last.doc.Lines, r.LineNumber - 1, last.opts.ContextLines)
              /\ \E j \in DOMAIN r.Context : r.Context[j] = r.Line

\* C13, amended: every SearchResult of a matching line at 0-based index i
\* has lineNumber i+1; with contextLines > 0 its context is the slice
\* [max(0, i-contextLines), min(n, i+contextLines+1)) of the lines, which
\* holds the matching line, and with contextLines = 0 its context is empty
C13_ContextOnlyWhenRequested ==
    (last.op = "search" /\ last.err.kind = "nil") =>
        /\ RecordsMatchingLines(last.found, SearchCompile(last.opts), last.doc)
        /\ \A k \in DOMAIN last.found :
              LET r == last.found[k]
                  i == r.LineNumber - 1
              IN  IF last.opts.ContextLines > 0
                  THEN /\ r.Context = ContextSlice(last.doc.Lines, i, last.opts.ContextLines)
                       /\ Len(r.Context) >= 1
                       /\ r.Context[i + 1 - (IF i - last.opts.ContextLines > 0
                                             THEN i - last.opts.ContextLines ELSE 0)] = r.Line
                  ELSE r.Context = <<>>

C13_Witness ==
    /\ last.op = "search" /\ last.err.kind = "nil"
    /\ last.opts.ContextLines = 1
    /\ Len(last.doc.Lines) = 3
    /\ Len(last.found) = 3
    /\ Len(last.found[1].Context) = 2
    /\ Len(last.found[2].Context) = 3
    /\ last.found[2].Context # last.found[3].Context

\* t holds p verbatim
Contains(t, p) == \E i \in 0..(Len(t) - Len(p)) : SubSeq(t, i + 1, i + Len(p)) = p

\* C14, as stated: Search with regexMode=false for a non-empty pattern the
\* content holds verbatim reports matchesFound >= 1, whatever caseSensitive
\* and wholeWord are
C14_LiteralFoundUnderEveryOption ==
    (last.op = "search" /\ ~last.opts.RegexMode /\ last.opts.Pattern # <<>>
        /\ last.opts.ContextLines >= 0 /\ Contains(last.doc.Content, last.opts.Pattern)) =>
        /\ last.err.kind = "nil"
        /\ last.res.MatchesFound >= 1

\* C14, amended: Search with regexMode=false and wholeWord=false for a
\* non-empty pattern without a line break that the content holds verbatim
\* reports matchesFound >= 1, whatever caseSensitive is
C14_LiteralFoundInLine ==
    (last.op = "search" /\ ~last.opts.RegexMode /\ ~last.opts.WholeWord
        /\ last.opts.Pattern # <<>> /\ ~Contains(last.opts.Pattern, <<NL>>)
        /\ last.opts.ContextLines >= 0 /\ Contains(last.doc.Content, last.opts.Pattern)) =>
        /\ last.err.kind = "nil"
        /\ ~last.res.isNil
        /\ last.res.MatchesFound >= 1

C14_Witness ==
    /\ last.op = "search" /\ ~last.opts.RegexMode /\ ~last.opts.WholeWord
    /\ last.opts.CaseSensitive
    /\ last.opts.Pattern = <<"(">>
    /\ Contains(last.doc.Content, last.opts.Pattern)
    /\ last.res.MatchesFound = 1 /\ Len(last.doc.Lines) = 3

\* line holds the literal p, in exactly its letter case or in any
HoldsLiteral(line, p, caseSensitive) ==
    IF caseSensitive THEN Contains(line, p)
    ELSE Contains(ToLowerText(line), ToLowerText(p))

\* the 1-based indices of the lines of doc that hold the literal p
LinesHolding(doc, p, caseSensitive) ==
    {i \in 1..Len(doc.Lines) : HoldsLiteral(doc.Lines[i], p, caseSensitive)}

\* a Search, or a Filter that selects the matching lines whole, for a
\* literal pattern within a line and without word boundaries
PlainLiteralMatch ==
    /\ last.op \in {"search", "filter"} /\ last.err.kind = "nil"
    /\ ~last.opts.RegexMode /\ ~last.opts.WholeWord
    /\ ~last.opts.InvertMatch /\ ~last.opts.OnlyMatching
    /\ ~Contains(last.opts.Pattern, <<NL>>)

\* C15: Search and Filter honour caseSensitive: with caseSensitive=false the
\* lines matched are those holding the literal pattern in any letter case,
\* with caseSensitive=true those holding it in exactly the given case, so
\* the lines matched case-sensitively are among those matched without case
C15_CaseSensitivityHonoured ==
    PlainLiteralMatch =>
        LET p == last.opts.Pattern
            exact == LinesHolding(last.doc, p, TRUE)
            anyCase == LinesHolding(last.doc, p, FALSE)
        IN  /\ last.res.MatchesFound =
                  Cardinality(IF last.opts.CaseSensitive THEN exact ELSE anyCase)
            /\ last.op = "search" =>
                  {last.found[k].LineNumber : k \in DOMAIN last.found} =
                      (IF last.opts.CaseSensitive THEN exact ELSE anyCase)
            /\ exact \subseteq anyCase

C15_Witness ==
    /\ PlainLiteralMatch /\ last.op = "search" /\ ~last.opts.CaseSensitive
    /\ last.opts.Pattern = <<"a">>
    /\ last.doc.Lines = <<(<<"a">>), (<<"A">>), (<<"(">>)>>
    /\ last.res.MatchesFound = 2
    /\ Cardinality(LinesHolding(last.doc, last.opts.Pattern, TRUE)) = 1

\* C16: for the same Document and the same pattern, regexMode, caseSensitive
\* and wholeWord, the lines a successful Filter selects with invertMatch and
\* onlyMatching unset are the lines Search reports as matching
C16_SearchAndFilterSelectSameLines ==
    (last.op = "filter" /\ last.err.kind = "nil"
        /\ ~last.opts.InvertMatch /\ ~last.opts.OnlyMatching) =>
        LET searched == SearchProcess(last.doc, last.opts, NoFaults, fs, dirs, now)
            reported == [k \in DOMAIN searched.results |-> searched.results[k].Line]
        IN  /\ searched.err.kind = "nil"
            /\ last.res.MatchesFound = searched.res.MatchesFound
            /\ last.res.ModifiedContent = FileOfLines(reported)

\* the 1-based indices of the lines a Filter with options o selects
SelectedLines(o, doc) ==
    LET matching == MatchingLines(FilterCompile(o), doc)
    IN  IF o.InvertMatch THEN (1..Len(doc.Lines)) \ matching ELSE matching

\* C17: with onlyMatching unset, Filter with invertMatch=true selects
\* exactly the lines Filter with invertMatch=false does not select: the two
\* selections are disjoint and cover the lines, and the two matchesFound
\* sum to the number of lines
C17_InvertPartitionsLines ==
    (last.op = "filter" /\ last.err.kind = "nil" /\ ~last.opts.OnlyMatching) =>
        LET inverted == [last.opts EXCEPT !.InvertMatch = ~last.opts.InvertMatch]
            other == FilterProcess(last.doc, inverted, NoFaults, fs, dirs, now)
        IN  /\ other.err.kind = "nil"
            /\ last.res.MatchesFound = Cardinality(SelectedLines(last.opts, last.doc))
            /\ other.res.MatchesFound = Cardinality(SelectedLines(inverted, last.doc))
            /\ SelectedLines(last.opts, last.doc) \cap SelectedLines(inverted, last.doc) = {}
            /\ last.res.MatchesFound + other.res.MatchesFound = Len(last.doc.Lines)
            /\ Len(last.res.ModifiedContent) + Len(other.res.ModifiedContent)
                  = Len(last.doc.Content)

C17_Witness ==
    /\ last.op = "filter" /\ last.err.kind = "nil"
    /\ last.opts.InvertMatch /\ ~last.opts.OnlyMatching
    /\ Len(last.doc.Lines) = 3
    /\ last.res.MatchesFound = 2
    /\ last.res.ModifiedContent # <<>>

\* the leftmost match of re in a line that has one
FirstMatch(re, line) ==
    LET p == CHOOSE q \in LineMatchStarts(re, line) :
                 \A r \in LineMatchStarts(re, line) : q <= r
    IN  SubSeq(line, p, MatchEnd(re, line, p) - 1)

\* the lines for which a Filter with options o appends an entry: the
\* selected lines, under onlyMatching those of them whose leftmost match is
\* not empty (a line without a match has none)
EmittingLines(o, doc) ==
    IF o.OnlyMatching
    THEN {i \in SelectedLines(o, doc) \cap MatchingLines(FilterCompile(o), doc) :
             FirstMatch(FilterCompile(o), doc.Lines[i]) # <<>>}
    ELSE SelectedLines(o, doc)

EntryOf(o, doc, i) ==
    IF o.OnlyMatching THEN FirstMatch(FilterCompile(o), doc.Lines[i]) ELSE doc.Lines[i]

\* the entries in document order, each followed by a line break
EntriesJoined(o, doc) ==
    Concat([i \in 1..Len(doc.Lines) |->
               IF i \in EmittingLines(o, doc) THEN EntryOf(o, doc, i) \o <<NL>> ELSE <<>>])

\* C18, as stated: for every combination of regexMode, invertMatch and
\* onlyMatching a successful Filter reports as matchesFound the number of
\* selected lines, and its modifiedContent is the emitted entries in
\* document order joined by line breaks with one trailing line break, or
\* empty when nothing is emitted
C18_MatchesFoundIsSelectedLines ==
    (last.op = "filter" /\ last.err.kind = "nil") =>
        /\ last.res.MatchesFound = Cardinality(SelectedLines(last.opts, last.doc))
        /\ last.res.ModifiedContent = EntriesJoined(last.opts, last.doc)

\* C18, amended: a successful Filter reports as matchesFound the number of
\* entries it emits: the number of selected lines when onlyMatching is
\* unset, the number of matching lines whose leftmost match is not empty
\* when onlyMatching alone is set, and 0 when invertMatch and onlyMatching
\* are both set; its modifiedContent is the emitted entries in document
\* order joined by line breaks with one trailing line break, or empty when
\* nothing is emitted
C18_MatchesFoundIsEmittedEntries ==
    (last.op = "filter" /\ last.err.kind = "nil") =>
        /\ last.res.MatchesFound = Cardinality(EmittingLines(last.opts, last.doc))
        /\ ~last.opts.OnlyMatching =>
              last.res.MatchesFound = Cardinality(SelectedLines(last.opts, last.doc))
        /\ (last.opts.InvertMatch /\ last.opts.OnlyMatching) => last.res.MatchesFound = 0
        /\ last.res.ModifiedContent = EntriesJoined(last.opts, last.doc)
        /\ last.res.MatchesFound = 0 <=> last.res.ModifiedContent = <<>>

C18_Witness ==
    /\ last.op = "filter" /\ last.err.kind = "nil"
    /\ last.opts.RegexMode /\ last.opts.InvertMatch /\ last.opts.OnlyMatching
    /\ Cardinality(SelectedLines(last.opts, last.doc)) = 2
    /\ last.res.MatchesFound = 0

\* the leftmost match of each line of doc that matches, each followed by a
\* line break; empties says whether an empty match is an entry too
FirstMatchesJoined(re, doc, empties) ==
    Concat([i \in 1..Len(doc.Lines) |->
               IF i \in MatchingLines(re, doc)
                      /\ (empties \/ FirstMatch(re, doc.Lines[i]) # <<>>)
               THEN FirstMatch(re, doc.Lines[i]) \o <<NL>>
               ELSE <<>>])

\* C19, as stated: a successful Filter with invertMatch and onlyMatching
\* both set emits nothing, its modifiedContent is empty; with onlyMatching
\* set and invertMatch unset it emits, for each line that matches, the
\* leftmost match in the line and not the line
C19_OnlyMatchingEmitsEveryFirstMatch ==
    (last.op = "filter" /\ last.err.kind = "nil" /\ last.opts.OnlyMatching) =>
        IF last.opts.InvertMatch
        THEN last.res.ModifiedContent = <<>>
        ELSE last.res.ModifiedContent =
                 FirstMatchesJoined(FilterCompile(last.opts), last.doc, TRUE)

\* C19, amended: a successful Filter with invertMatch and onlyMatching both
\* set emits nothing, its modifiedContent is empty; with onlyMatching set
\* and invertMatch unset it emits, for each line that matches with a
\* leftmost match that is not empty, that match and not the line, and
\* nothing for a line whose leftmost match is empty
C19_InvertedOnlyMatchingEmitsNothing ==
    (last.op = "filter" /\ last.err.kind = "nil" /\ last.opts.OnlyMatching) =>
        IF last.opts.InvertMatch
        THEN last.res.ModifiedContent = <<>> /\ last.res.MatchesFound = 0
        ELSE last.res.ModifiedContent =
                 FirstMatchesJoined(FilterCompile(last.opts), last.doc, FALSE)

C19_Witness ==
    /\ last.op = "filter" /\ last.err.kind = "nil"
    /\ last.opts.OnlyMatching /\ ~last.opts.InvertMatch
    /\ last.opts.RegexMode /\ last.opts.Pattern = <<BS, "b">>
    /\ Cardinality(MatchingLines(FilterCompile(last.opts), last.doc)) = 2
    /\ Len(last.doc.Lines) = 3
    /\ last.res.ModifiedContent = <<>> /\ last.res.MatchesFound = 0

\* C20: a Filter makes a filesystem call only when outputPath is not empty
\* and dryRun is unset, and then one write, to outputPath: no other file is
\* created or changed, and what a successful write leaves there is
\* modifiedContent; otherwise the files are as they were; a Filter never
\* takes a backup or creates a directory, whatever createBackup says
C20_FilterWritesOnlyOutputPath ==
    [][(Invoked /\ last'.op = "filter" /\ last'.via = "strategy") =>
        LET o == last'.opts
            log == last'.log
        IN  /\ dirs' = dirs
            /\ last'.res.BackupPath = ""
            /\ \A j \in DOMAIN log : log[j].call = "WriteOutput" /\ log[j].path = o.OutputFile
            /\ Len(log) <= 1
            /\ IF o.OutputFile # "" /\ ~o.DryRun
               THEN /\ \A p \in DOMAIN fs' \ {o.OutputFile} : p \in DOMAIN fs /\ fs'[p] = fs[p]
                    /\ DOMAIN fs \subseteq DOMAIN fs'
                    /\ last'.err.kind = "nil" =>
                          Len(log) = 1 /\ fs'[o.OutputFile] = last'.res.ModifiedContent
               ELSE fs' = fs /\ log = <<>>]_vars

C20_Witness ==
    /\ last.op = "filter" /\ last.err.kind = "nil"
    /\ last.opts.CreateBackup /\ last.opts.OutputFile = OUT /\ ~last.opts.DryRun
    /\ DOMAIN fs = {SRC, OUT} /\ fs[OUT] = last.res.ModifiedContent
    /\ fs[OUT] # fs[SRC]
    /\ dirs = {}

\* the four transform kinds
TransformKinds == {"upper", "lower", "title", "trim"}

\* what a Transform invocation that was rejected by the validation left
TransformRejected ==
    /\ last'.err.kind = "invalid transform options"
    /\ last'.res.isNil /\ ~last'.res.Success
    /\ last'.log = <<>>
    /\ fs' = fs /\ dirs' = dirs

\* what a Transform invocation that passed the validation left
TransformAccepted ==
    /\ last'.err.kind \in {"nil", "failed to write transformed content"}
    /\ last'.err.kind = "nil" => ~last'.res.isNil

\* C21, as stated: Transform accepts a transformKind that is one of the four
\* strings upper, lower, title and trim, and every other value fails with
\* the validation error, no Result and no write
C21_OnlyTheFourKindsAccepted ==
    [][(Invoked /\ last'.op = "transform") =>
        IF last'.opts.TransformType \in TransformKinds
        THEN TransformAccepted ELSE TransformRejected]_vars

\* C21, amended: Transform accepts a transformKind that is one of the four
\* kinds in any letter case; every other value, the empty string included,
\* fails with the validation error, no Result, no filesystem call and the
\* files as they were
C21_KindsAcceptedInAnyCase ==
    [][(Invoked /\ last'.op = "transform") =>
        IF ToLowerName(last'.opts.TransformType) \in TransformKinds
        THEN TransformAccepted ELSE TransformRejected]_vars

C21_Witness ==
    /\ last.op = "transform" /\ last.opts.TransformType = "bogus"
    /\ ~last.opts.DryRun /\ last.opts.OutputFile = OUT
    /\ last.err.kind = "invalid transform options" /\ last.res.isNil
    /\ OUT \notin DOMAIN fs

\* a line without its leading and trailing whitespace: what lies between
\* its first and its last character that is no whitespace
Stripped(line) ==
    LET body == {i \in 1..Len(line) : line[i] \notin SpaceChars}
    IN  IF body = {} THEN <<>>
        ELSE SubSeq(line, CHOOSE i \in body : \A j \in body : i <= j,
                          CHOOSE i \in body : \A j \in body : i >= j)

\* the stripped lines in their order, each followed by a line break: the
\* lines joined by newline with a trailing newline, nothing for no line
StrippedLines(lines) == Concat([i \in 1..Len(lines) |-> Stripped(lines[i]) \o <<NL>>])

\* C22: a successful Transform reports matchesFound = 1 whatever its kind,
\* and Transform trim returns every line of the Document without its leading
\* and trailing whitespace, in the original order, joined by newline, with a
\* trailing newline when there is a line and the empty string when there is
\* none
C22_TrimStripsEveryLine ==
    (last.op = "transform" /\ last.err.kind = "nil") =>
        /\ last.res.MatchesFound = 1
        /\ ToLowerName(last.opts.TransformType) = "trim" =>
              /\ last.res.ModifiedContent = StrippedLines(last.doc.Lines)
              /\ last.doc.Lines = <<>> => last.res.ModifiedContent = <<>>
              /\ last.doc.Lines # <<>> =>
                    last.res.ModifiedContent[Len(last.res.ModifiedContent)] = NL

C22_Witness ==
    /\ last.op = "transform" /\ last.opts.TransformType = "trim" /\ last.err.kind = "nil"
    /\ last.doc.Lines = <<(<<" ", "a", " ">>)>>
    /\ last.res.ModifiedContent = <<"a", NL>>
    /\ last.res.MatchesFound = 1

\* a successful Transform upper
UpperDone(call) ==
    /\ call.op = "transform" /\ call.err.kind = "nil"
    /\ ToLowerName(call.opts.TransformType) = "upper"

\* C23: Transform upper is idempotent: after a live Transform upper wrote
\* its output over the source, Transform upper on the Document reloaded from
\* that file takes the output of the first as its content and returns the
\* same content
C23_UpperIsIdempotent ==
    [][(Invoked /\ UpperDone(last) /\ ~last.opts.DryRun /\ last.opts.OutputFile = ""
            /\ UpperDone(last')) =>
        /\ last'.doc.Content = last.res.ModifiedContent
        /\ last'.res.ModifiedContent = last.res.ModifiedContent]_vars

\* a second Transform upper on content only Transform upper produces
C23_Witness ==
    /\ ops = 2 /\ UpperDone(last)
    /\ last.doc.Content = <<"A", "A", NL>>
    /\ last.res.ModifiedContent = <<"A", "A", NL>>

\* C24: in regex mode, on options that pass the validation, a pattern that
\* does not compile makes Search, Replace and Filter return the
\* invalid-pattern error, whose message holds the pattern text, and no
\* Result; no filesystem call is made, so a Replace has created no backup
\* and written no file
C24_InvalidPatternReported ==
    [][(Invoked /\ last'.op \in {"search", "replace", "filter"} /\ last'.opts.RegexMode
            /\ ~InvalidOptions(last'.op, last'.opts)
            /\ ~RegexpCompile(~last'.opts.CaseSensitive, last'.opts.Pattern).ok) =>
        /\ last'.err.kind = "invalid regex pattern"
        /\ last'.err.pattern = last'.opts.Pattern
        /\ last'.res.isNil /\ ~last'.res.Success
        /\ last'.log = <<>>
        /\ fs' = fs /\ dirs' = dirs]_vars

C24_Witness ==
    /\ last.op = "replace" /\ last.opts.RegexMode /\ last.opts.Pattern = <<"a", "(">>
    /\ TakesBackup(last.opts) /\ last.opts.BackupDir = BDIR
    /\ last.err.kind = "invalid regex pattern" /\ last.err.pattern = <<"a", "(">>
    /\ last.res.isNil
    /\ DOMAIN fs = {SRC} /\ dirs = {}

\* C25: a command whose dispatch to the operation engine returned an error
\* returns an error itself (printed to the error stream, non-zero exit): no
\* command returns nil after an operation on one of its files failed
C25_EngineErrorFailsCommand ==
    (last.via = "command" /\ last.err.kind # "nil") => last.cmdErr # "nil"

ExtensionsOf(reader) == {reader.extensions[k] : k \in 1..Len(reader.extensions)}

\* the readers of frs that list the extension in lower case
Supporting(frs, extension) ==
    {i \in 1..Len(frs) : ToLowerExt(extension) \in ExtensionsOf(frs[i])}

\* the format the readers of package reader and of package strategies give
\* the files of an extension
FormatOf(extension) ==
    CASE extension \in {".txt", ".text", ".log"}      -> "txt"
      [] extension \in {".csv", ".tsv"}               -> "csv"
      [] extension \in {".json", ".jsonl", ".ndjson"} -> "json"
      [] OTHER                                        -> "mock"

\* C27: ReadFile delegates to the first registered reader that supports the
\* extension of the file, compared in lower case, so that a file it loads
\* has the format of its extension (txt for .txt, .text and .log, csv for
\* .csv and .tsv, json for .json, .jsonl and .ndjson); when no registered
\* reader supports the extension it returns the unsupported-file-type error
\* with the supported types listed, and opens no file
C27_ReadFileDispatchesOnExtension ==
    [][(loaded' # loaded) =>
        LET extension == Ext(loaded'.filename)
            S == Supporting(readers, extension)
        IN  IF S = {}
            THEN /\ loaded'.err = "unsupported file type"
                 /\ loaded'.reader = 0
                 /\ {loaded'.types[k] : k \in 1..Len(loaded'.types)} =
                        UNION {ExtensionsOf(readers[i]) : i \in 1..Len(readers)}
                 /\ loaded'.log = <<>>
                 /\ loaded'.doc = EmptyDoc
            ELSE /\ loaded'.reader \in S
                 /\ \A i \in S : loaded'.reader <= i
                 /\ loaded'.err # "unsupported file type"
                 /\ loaded'.log = <<LogEntry("Open", loaded'.filename,
                                             IF loaded'.err = "nil" THEN "ok" ELSE "fail")>>
                 /\ loaded'.err = "nil" =>
                        loaded'.doc.FileType = FormatOf(ToLowerExt(extension))]_vars

\* a file with its extension in upper case loaded by the text reader, the
\* first of two registered readers for .txt
C27_Witness ==
    /\ loaded.filename = "N.TXT" /\ loaded.err = "nil"
    /\ loaded.reader = 1 /\ loaded.doc.FileType = "txt"
    /\ Cardinality(Supporting(readers, ".txt")) = 2

\* the extensions of the files of the model, in the case the files have them
ModelExtensions == {Ext(p) : p \in ReaderPaths}

\* GetSupportedTypes lists every extension of every reader, each once
ListsEveryExtensionOnce(frs) ==
    LET types == GetSupportedTypes(frs) IN
    /\ {types[k] : k \in 1..Len(types)} = UNION {ExtensionsOf(frs[i]) : i \in 1..Len(frs)}
    /\ \A k, l \in 1..Len(types) : types[k] = types[l] => k = l

\* C30: after any sequence of AddReader calls on the strategy that
\* NewFileReaderStrategy builds, GetReaderCount is its initial count of 3
\* plus the number of calls and GetSupportedTypes lists every extension of
\* every registered reader once; an AddReader call leaves every extension
\* that had a reader with that same reader
C30_AddReaderExtendsRegistry ==
    /\ [](/\ GetReaderCount(NewFileReaderStrategy) = 3
          /\ GetReaderCount(readers) = GetReaderCount(NewFileReaderStrategy) + ops
          /\ ListsEveryExtensionOnce(readers))
    /\ [][(readers' # readers) =>
            \A extension \in ModelExtensions :
                GetReaderForExtension(readers, extension) # NilReader =>
                    GetReaderForExtension(readers', extension) =
                        GetReaderForExtension(readers, extension)]_vars

\* two readers added that list .txt again, and a .txt file read after that
\* by the text reader registered first
C30_Witness ==
    /\ ops = 2
    /\ readers = AddReader(AddReader(NewFileReaderStrategy, MockReader(<<".txt", ".xyz">>)),
                           TextFileReader("strategies"))
    /\ GetReaderCount(readers) = 5
    /\ Len(GetSupportedTypes(readers)) = 9
    /\ loaded.filename = "n.txt" /\ loaded.reader = 1 /\ loaded.doc.FileType = "txt"

\* the last invocation had the operation, the Document and the Options of
\* the first one
RepeatsFirst ==
    /\ last.first.set
    /\ last.op = last.first.op /\ last.doc = last.first.doc /\ last.opts = last.first.opts

FailedBackupCalls(log) ==
    {i \in DOMAIN log :
        /\ log[i].call \in {"ReadFile", "MkdirAll", "WriteBackup"}
        /\ log[i].outcome \notin {"ok"}}

\* the file at path is in this step what it was before it
SameFile(path) ==
    /\ path \in DOMAIN fs' <=> path \in DOMAIN fs
    /\ path \in DOMAIN fs => fs'[path] = fs[path]

\* C29: a live Replace with createBackup set, its options valid and its
\* pattern compiled, attempts the backup whatever the pattern matches and
\* wherever the output goes; when a call of the backup fails the Replace
\* fails, writes no output file and leaves the source file as it was; and a
\* Replace returns a backupPath only of a backup file that was written
C29_FailedBackupStopsReplace ==
    [][(Invoked /\ last'.op = "replace") =>
          /\ (/\ last'.opts.CreateBackup /\ ~last'.opts.DryRun
              /\ last'.err.kind \notin {"invalid replace options", "invalid regex pattern",
                                        "failed to compile replace pattern"}) =>
                /\ \E i \in DOMAIN last'.log :
                      last'.log[i] = LogEntry("ReadFile", last'.opts.FileName,
                                              last'.log[i].outcome)
                /\ FailedBackupCalls(last'.log) # {} <=> last'.err.kind = "failed to create backup"
                /\ FailedBackupCalls(last'.log) # {} =>
                      /\ last'.res.isNil
                      /\ \A i \in DOMAIN last'.log : last'.log[i].call # "WriteOutput"
                      /\ SameFile(SRC)
                      /\ SameFile(OUT)
          /\ (~last'.res.isNil /\ last'.res.BackupPath # "") =>
                /\ last'.opts.CreateBackup /\ ~last'.opts.DryRun
                /\ last'.res.BackupPath \in DOMAIN fs'
                /\ fs'[last'.res.BackupPath] = fs[last'.opts.FileName]
                /\ \E i \in DOMAIN last'.log :
                      last'.log[i] = LogEntry("WriteBackup", last'.res.BackupPath, "ok")]_vars

\* a live Replace to another file whose pattern matches nothing and whose
\* backup file could not be written
C29_Witness ==
    /\ last.op = "replace" /\ last.opts.CreateBackup /\ ~last.opts.DryRun
    /\ last.opts.OutputFile = OUT
    /\ FindAllIndex(ReplaceCompile(last.opts), last.doc.Content) = <<>>
    /\ \E i \in FailedBackupCalls(last.log) : last.log[i].call = "WriteBackup"
    /\ last.err.kind = "failed to create backup"
    /\ OUT \notin DOMAIN fs
    /\ fs[SRC] = last.doc.Content

====
